---------------------------- MODULE Spec2Model ----------------------------
(***************************************************************************)
(* A model of OsdagBridge:                                                 *)
(*   - the bridge geometry / load placement core                           *)
(*     (core/bridge_types/plate_girder/bridge_geometry.py),                *)
(*   - the carriageway-width reconciliation of the input dock and          *)
(*   - the Material Properties dialog (desktop/ui/docks/input_dock.py),    *)
(*   - the Typical Section Details tab of the Additional Inputs window     *)
(*     (desktop/ui/additional_inputs.py) and the lock of the dock,         *)
(*   - the Project Location dialog (desktop/ui/dialogs/project_location.py)*)
(*   - and the command line (cli/main.py).                                 *)
(*                                                                         *)
(* Lengths are integers counting quarters of the model's length unit, so   *)
(* that the two halvings of the code (carriageway_width / 2.0 and          *)
(* 0.5 * (x_start + x_end)) are exact, as they are for the binary floats   *)
(* of the program when the inputs are multiples of a power of two.         *)
(***************************************************************************)
EXTENDS Integers, Sequences, FiniteSets, TLC

VARIABLES
    layout,     \* the CrossSectionLayout under test (built = FALSE: none yet)
    bridge,     \* the BridgeGeometry of the LoadPlacementManager
    result,     \* outcome of the last geometry call (returned value or raised error)
    carriageway_input,      \* InputDock.carriageway_input: its text and placeholder
    include_median_combo,   \* InputDock.include_median_combo: "No" or "Yes"
    message_box,            \* text of the warning the last dock handler showed ("": none)
    event,                  \* the last dock event and the text it found in the field
    material_dialog,        \* InputDock.material_dialog (exists = FALSE: None)
    grade_combos,           \* currentText of girder_combo, cross_bracing_combo,
                            \* end_diaphragm_combo and deck_combo, by member
    dialog_event,           \* the last handler of the dialog and the records it changed
    edits,                  \* number of user changes so far
    generated,              \* result of the last call of a default generator
    is_locked,              \* InputDock.is_locked
    scroll_area,            \* InputDock.scroll_area.isEnabled()
    footpath_combo,         \* currentText of InputDock.footpath_combo
    additional_inputs_window,   \* InputDock.additional_inputs_window: "None", "visible" or "hidden"
    additional_inputs_widget,   \* InputDock.additional_inputs_widget: the AdditionalInputs
                                \* widget with its Typical Section Details tab, or None
    layout_event,           \* the last handler of the Layout sub-tab and what it found
    layout_edits,           \* number of user edits of the Additional Inputs fields so far
    location_dialog,        \* the ProjectLocationDialog: its check boxes, fields and selectors
    location_result,        \* what get_selected_location() returned last
    files,                  \* the files of the working directory, by name
    cli,                    \* outcome of the last command line: output, exit code, file reads
    width_call,             \* the last comparison of computed bridge widths (binary64)
    end_diaphragm_tab,      \* EndDiaphragmDetailsTab: selectors, stack and sync flag
    custom_pairs,           \* the Automatic/Custom selectors with their value fields
    window,                 \* CustomWindow: splitter panes, indicators and the log dock
    lock_tooltip            \* the "Unlock to Edit" tooltip of the dock and its timer

geoVars == <<layout, bridge, result>>

dockVars == <<carriageway_input, include_median_combo, message_box, event>>

matVars == <<material_dialog, grade_combos, dialog_event, edits, generated>>

addVars == <<is_locked, scroll_area, footpath_combo, additional_inputs_window, additional_inputs_widget, layout_event, layout_edits>>

locVars == <<location_dialog, location_result>>

cliVars == <<files, cli>>

moreVars == <<width_call, end_diaphragm_tab, custom_pairs, window, lock_tooltip>>

restVars == <<addVars, locVars, cliVars, moreVars>>

vars == <<layout, bridge, result, carriageway_input, include_median_combo, message_box, event, material_dialog, grade_combos, dialog_event, edits, generated, is_locked, scroll_area, footpath_combo, additional_inputs_window, additional_inputs_widget, layout_event, layout_edits, location_dialog, location_result, files, cli, width_call, end_diaphragm_tab, custom_pairs, window, lock_tooltip>>

-----------------------------------------------------------------------------
(* Bounds of the geometry inputs, in whole length units.                   *)

MaxWidth == 1

\* no_of_footpaths is 0, 1 or 2
MaxFootpaths == 2

Widths == 0..MaxWidth
SignedWidths == (-1)..MaxWidth
FootpathCounts == 0..MaxFootpaths
\* spans in whole length units: the constructor takes any number
Spans == {-1, 0, 1}
\* tolerances, and differences between the two widths, in quarters
Tolerances == {0, 1}
WidthOffsets == (-2)..2
Sides == {"left", "right", "centre"}

Abs(i) == IF i < 0 THEN -i ELSE i

Half(q) == q \div 2

RECURSIVE SumSeq(_)
SumSeq(s) == IF s = <<>> THEN 0 ELSE Head(s) + SumSeq(Tail(s))

-----------------------------------------------------------------------------
(* bridge_geometry.py: value types                                         *)

Point(x, z) == [x |-> x, z |-> z]

LineLoadGeometry(start, end) == <<start, end>>

PatchLoadGeometry(p1, p2, p3, p4) == <<p1, p2, p3, p4>>

SectionComponent(name, width, x_start, x_end) ==
    [name |-> name, width |-> width, x_start |-> x_start, x_end |-> x_end]

\* a centre that is not halved
center_unhalved(comp) == comp.x_start + comp.x_end

center(comp) == Half(comp.x_start + comp.x_end)

\* BridgeGeometry.__init__(span, width) keeps the two numbers as given
BridgeGeometry(span, width) == [built |-> TRUE, span |-> span, width |-> width]

\* no bridge has been constructed
NoBridge == [built |-> FALSE, span |-> 0, width |-> 0]

ORDER ==
    << "railing_left", "footpath_left", "crash_barrier_left", "carriageway_left",
       "median", "carriageway_right", "crash_barrier_right", "footpath_right",
       "railing_right" >>

-----------------------------------------------------------------------------
(* The outcome of a call: status "ok" with the returned value, or the name *)
(* of the exception raised.                                                *)

NoPoints == <<>>

Outcome(op, status, key, points, flag, side, a, b, manager) ==
    [op |-> op, status |-> status, key |-> key, points |-> points, flag |-> flag,
     side |-> side, a |-> a, b |-> b, manager |-> manager]

NoManager == [bridge |-> NoBridge, registry |-> <<>>]

NoResult == Outcome("none", "ok", "", NoPoints, FALSE, "", 0, 0, NoManager)

Returned(op, points) == Outcome(op, "ok", "", points, FALSE, "", 0, 0, NoManager)

Raised(op, error, key) == Outcome(op, error, key, NoPoints, FALSE, "", 0, 0, NoManager)

-----------------------------------------------------------------------------
(* CrossSectionLayout                                                      *)

\* the nested function add(name, width) of _build_layout; acc carries the
\* component list and the running x
add_keeps_zero(acc, name, width) ==
    IF width < 0
    THEN acc
    ELSE [components |-> Append(acc.components,
                                SectionComponent(name, width, acc.x, acc.x + width)),
          x |-> acc.x + width]

add_no_advance(acc, name, width) ==
    IF width <= 0
    THEN acc
    ELSE [components |-> Append(acc.components,
                                SectionComponent(name, width, acc.x, acc.x + width)),
          x |-> acc.x]

add(acc, name, width) ==
    IF width <= 0
    THEN acc
    ELSE [components |-> Append(acc.components,
                                SectionComponent(name, width, acc.x, acc.x + width)),
          x |-> acc.x + width]

_build_layout(carriageway_width, crash_barrier_width, railing_width, footpath_width, median_width, no_of_footpaths) ==
    LET a0 == [components |-> <<>>, x |-> 0]
        a1 == IF no_of_footpaths >= 1
              THEN add(add(a0, "railing_left", railing_width),
                       "footpath_left", footpath_width)
              ELSE a0
        a2 == add(a1, "crash_barrier_left", crash_barrier_width)
        a3 == add(a2, "carriageway_left", Half(carriageway_width))
        a4 == add(a3, "median", median_width)
        a5 == add(a4, "carriageway_right", Half(carriageway_width))
        a6 == add(a5, "crash_barrier_right", crash_barrier_width)
        a7 == IF no_of_footpaths >= 2
              THEN add(add(a6, "footpath_right", footpath_width),
                       "railing_right", railing_width)
              ELSE a6
    IN  [components |-> a7.components, total_width |-> a7.x]

CrossSectionLayout(carriageway_width, crash_barrier_width, railing_width, footpath_width, median_width, no_of_footpaths) ==
    LET built == _build_layout(carriageway_width, crash_barrier_width, railing_width,
                               footpath_width, median_width, no_of_footpaths)
    IN  [built |-> TRUE,
         carriageway_width |-> carriageway_width,
         crash_barrier_width |-> crash_barrier_width,
         railing_width |-> railing_width,
         footpath_width |-> footpath_width,
         median_width |-> median_width,
         no_of_footpaths |-> no_of_footpaths,
         _components |-> built.components,
         total_width |-> built.total_width]

NoLayout ==
    [built |-> FALSE, carriageway_width |-> 0, crash_barrier_width |-> 0,
     railing_width |-> 0, footpath_width |-> 0, median_width |-> 0,
     no_of_footpaths |-> 0, _components |-> <<>>, total_width |-> 0]

components(self) == self._components

has_component(self, name) ==
    \E i \in 1..Len(self._components) : self._components[i].name = name

\* the first component of that name, as the for loop finds it
FirstNamed(self, name) ==
    LET i == CHOOSE k \in 1..Len(self._components) :
                 /\ self._components[k].name = name
                 /\ \A j \in 1..(k - 1) : self._components[j].name # name
    IN  self._components[i]

get_component_lenient(self, name) ==
    IF has_component(self, name)
    THEN [status |-> "ok", comp |-> FirstNamed(self, name)]
    ELSE [status |-> "ok", comp |-> SectionComponent(name, 0, 0, 0)]

get_component(self, name) ==
    IF has_component(self, name)
    THEN [status |-> "ok", comp |-> FirstNamed(self, name)]
    ELSE [status |-> "KeyError", comp |-> SectionComponent(name, 0, 0, 0)]

validate_inclusive(self, bridge_width, tol) ==
    IF Abs(self.total_width - bridge_width) >= tol THEN "ValueError" ELSE "ok"

validate_against_bridge(self, bridge_width, tol) ==
    IF Abs(self.total_width - bridge_width) > tol THEN "ValueError" ELSE "ok"

-----------------------------------------------------------------------------
(* BridgeComponent variants                                                *)

CrashBarrier_any_side(self_bridge, offset, side) ==
    LET x == IF side = "left" THEN offset ELSE self_bridge.width - offset
    IN  [status |-> "ok",
         points |-> LineLoadGeometry(Point(x, 0), Point(x, self_bridge.span))]

\* CrashBarrier.to_global
CrashBarrier_to_global(self_bridge, offset, side) ==
    IF side = "left"
    THEN [status |-> "ok",
          points |-> LineLoadGeometry(Point(offset, 0),
                                      Point(offset, self_bridge.span))]
    ELSE IF side = "right"
    THEN [status |-> "ok",
          points |-> LineLoadGeometry(Point(self_bridge.width - offset, 0),
                                      Point(self_bridge.width - offset, self_bridge.span))]
    ELSE [status |-> "ValueError", points |-> NoPoints]

-----------------------------------------------------------------------------
(* LoadPlacementManager: self is [bridge, layout]                          *)

\* __init__(self, bridge, layout): both positional arguments are required
LoadPlacementManager_init(args) ==
    IF Len(args) = 2
    THEN [status |-> "ok", bridge |-> args[1], layout |-> args[2]]
    ELSE [status |-> "TypeError", bridge |-> NoBridge, layout |-> NoLayout]

\* the class defines no add_component method
LoadPlacementManager_methods ==
    {"deck_load", "overlay_load", "footpath_load", "crash_barrier_load",
     "railing_load", "median_line_load"}

deck_load(self) ==
    Returned("deck_load",
             PatchLoadGeometry(Point(0, 0),
                               Point(self.bridge.width, 0),
                               Point(self.bridge.width, self.bridge.span),
                               Point(0, self.bridge.span)))

footpath_load(self, side) ==
    LET got == get_component(self.layout, "footpath_" \o side)
        comp == got.comp
    IN  IF got.status # "ok"
        THEN Raised("footpath_load", got.status, "footpath_" \o side)
        ELSE Returned("footpath_load",
                      PatchLoadGeometry(Point(comp.x_start, 0),
                                        Point(comp.x_end, 0),
                                        Point(comp.x_end, self.bridge.span),
                                        Point(comp.x_start, self.bridge.span)))

crash_barrier_load(self, side) ==
    LET got == get_component(self.layout, "crash_barrier_" \o side)
        x == center(got.comp)
    IN  IF got.status # "ok"
        THEN Raised("crash_barrier_load", got.status, "crash_barrier_" \o side)
        ELSE Returned("crash_barrier_load",
                      LineLoadGeometry(Point(x, 0), Point(x, self.bridge.span)))

railing_load(self, side) ==
    LET got == get_component(self.layout, "railing_" \o side)
        x == center(got.comp)
    IN  IF got.status # "ok"
        THEN Raised("railing_load", got.status, "railing_" \o side)
        ELSE Returned("railing_load",
                      LineLoadGeometry(Point(x, 0), Point(x, self.bridge.span)))

median_line_load(self) ==
    LET got == get_component(self.layout, "median")
        x == center(got.comp)
    IN  IF got.status # "ok"
        THEN Raised("median_line_load", got.status, "median")
        ELSE Returned("median_line_load",
                      LineLoadGeometry(Point(x, 0), Point(x, self.bridge.span)))

-----------------------------------------------------------------------------
(* Module-level functions                                                  *)

calculate_bridge_width(carriageway_width, crash_barrier_width, median_width, no_of_footpaths, footpath_width, railing_width) ==
    carriageway_width + 2 * crash_barrier_width + median_width
        + no_of_footpaths * footpath_width + no_of_footpaths * railing_width

\* create_default_load_placement: the manager is constructed from the bridge
\* alone (line 406), and every registration goes through manager.add_component
\* (lines 447-457)
create_default_load_placement(span, carriageway_width, crash_barrier_width, no_of_footpaths, footpath_width, railing_width, median_width) ==
    LET bridge_width == calculate_bridge_width(carriageway_width, crash_barrier_width,
                                               median_width, no_of_footpaths,
                                               footpath_width, railing_width)
        new_bridge == BridgeGeometry(span, bridge_width)
        manager == LoadPlacementManager_init(<<new_bridge>>)
        optional == IF no_of_footpaths >= 1
                    THEN <<"FootpathLoad", "RailingLoad">>
                    ELSE <<>>
        registry == optional \o <<"DeckLoad", "OverlayLoad", "MedianLoad",
                                  "CrashBarrier:left", "CrashBarrier:right">>
    IN  IF manager.status # "ok"
        THEN Outcome("create_default_load_placement", manager.status, "",
                     NoPoints, FALSE, "", span, 0, NoManager)
        ELSE IF "add_component" \notin LoadPlacementManager_methods
        THEN Outcome("create_default_load_placement", "AttributeError", "",
                     NoPoints, FALSE, "", span, 0, NoManager)
        ELSE Outcome("create_default_load_placement", "ok", "", NoPoints, FALSE, "",
                     span, 0, [bridge |-> manager.bridge, registry |-> registry])

-----------------------------------------------------------------------------
(* Geometry operations as steps.  Arguments are whole length units,        *)
(* converted to quarters; a tolerance and a width offset are quarters.     *)

Q(w) == 4 * w

HasLayout == layout.built

HasManager == layout.built /\ bridge.built

Manager == [bridge |-> bridge, layout |-> layout]

\* no outcome is held: the caller has taken the last one
Idle == result = NoResult

GeometryInit ==
    /\ layout = NoLayout
    /\ bridge = NoBridge
    /\ result = NoResult

NewLayout(cw, cb, rw, fw, mw, n) ==
    /\ ~HasLayout
    /\ layout' = CrossSectionLayout(Q(cw), Q(cb), Q(rw), Q(fw), Q(mw), n)
    /\ bridge' = NoBridge
    /\ result' = NoResult
    /\ UNCHANGED <<dockVars, matVars, restVars>>

NewManager(span, width) ==
    /\ HasLayout
    /\ ~HasManager
    /\ LoadPlacementManager_init(<<BridgeGeometry(Q(span), Q(width)), layout>>).status = "ok"
    /\ bridge' = BridgeGeometry(Q(span), Q(width))
    /\ result' = NoResult
    /\ UNCHANGED layout
    /\ UNCHANGED <<dockVars, matVars, restVars>>

\* a manager on a bridge whose width differs from the layout's total width
\* by an offset in quarters: nothing validates the bridge or the pair at
\* construction, so that the width may be zero or negative
NewManagerOffset(span, offset) ==
    /\ HasLayout
    /\ ~HasManager
    /\ LoadPlacementManager_init(<<BridgeGeometry(Q(span), layout.total_width + offset), layout>>).status = "ok"
    /\ bridge' = BridgeGeometry(Q(span), layout.total_width + offset)
    /\ result' = NoResult
    /\ UNCHANGED layout
    /\ UNCHANGED <<dockVars, matVars, restVars>>

QueryDeckLoad ==
    /\ HasManager
    /\ Idle
    /\ result' = deck_load(Manager)
    /\ UNCHANGED <<layout, bridge>>
    /\ UNCHANGED <<dockVars, matVars, restVars>>

QueryFootpathLoad(side) ==
    /\ HasManager
    /\ Idle
    /\ result' = [footpath_load(Manager, side) EXCEPT !.side = side]
    /\ UNCHANGED <<layout, bridge>>
    /\ UNCHANGED <<dockVars, matVars, restVars>>

QueryCrashBarrierLoad(side) ==
    /\ HasManager
    /\ Idle
    /\ result' = [crash_barrier_load(Manager, side) EXCEPT !.side = side]
    /\ UNCHANGED <<layout, bridge>>
    /\ UNCHANGED <<dockVars, matVars, restVars>>

QueryRailingLoad(side) ==
    /\ HasManager
    /\ Idle
    /\ result' = [railing_load(Manager, side) EXCEPT !.side = side]
    /\ UNCHANGED <<layout, bridge>>
    /\ UNCHANGED <<dockVars, matVars, restVars>>

QueryMedianLineLoad ==
    /\ HasManager
    /\ Idle
    /\ result' = median_line_load(Manager)
    /\ UNCHANGED <<layout, bridge>>
    /\ UNCHANGED <<dockVars, matVars, restVars>>

QueryHasComponent(name) ==
    /\ HasLayout
    /\ Idle
    /\ result' = Outcome("has_component", "ok", name, NoPoints,
                         has_component(layout, name), "", 0, 0, NoManager)
    /\ UNCHANGED <<layout, bridge>>
    /\ UNCHANGED <<dockVars, matVars, restVars>>

ValidateAgainstBridge(bridge_width, tol) ==
    /\ HasLayout
    /\ Idle
    /\ result' = Outcome("validate_against_bridge",
                         validate_against_bridge(layout, bridge_width, tol),
                         "", NoPoints, FALSE, "", bridge_width, tol, NoManager)
    /\ UNCHANGED <<layout, bridge>>
    /\ UNCHANGED <<dockVars, matVars, restVars>>

CrashBarrierToGlobal(offset, side) ==
    /\ HasManager
    /\ Idle
    /\ LET got == CrashBarrier_to_global(bridge, Q(offset), side)
       IN  result' = Outcome("CrashBarrier.to_global", got.status, "", got.points,
                             FALSE, side, Q(offset), 0, NoManager)
    /\ UNCHANGED <<layout, bridge>>
    /\ UNCHANGED <<dockVars, matVars, restVars>>

CreateDefaultLoadPlacement(span) ==
    /\ HasLayout
    /\ Idle
    /\ result' = create_default_load_placement(
                     Q(span), layout.carriageway_width, layout.crash_barrier_width,
                     layout.no_of_footpaths, layout.footpath_width,
                     layout.railing_width, layout.median_width)
    /\ UNCHANGED <<layout, bridge>>
    /\ UNCHANGED <<dockVars, matVars, restVars>>

\* the caller drops the outcome of the last call
Forget ==
    /\ ~Idle
    /\ result' = NoResult
    /\ UNCHANGED <<layout, bridge>>
    /\ UNCHANGED <<dockVars, matVars, restVars>>

ComponentNames == {ORDER[i] : i \in 1..Len(ORDER)} \cup {"kerb"}

NextGeometry ==
    \/ \E cw \in Widths, cb \in Widths, rw \in SignedWidths, fw \in Widths,
          mw \in Widths, n \in FootpathCounts :
          NewLayout(cw, cb, rw, fw, mw, n)
    \/ \E span \in Spans, width \in SignedWidths : NewManager(span, width)
    \/ \E span \in Spans, offset \in {-1, 0, 1} : NewManagerOffset(span, offset)
    \/ QueryDeckLoad
    \/ \E side \in Sides : QueryFootpathLoad(side)
    \/ \E side \in Sides : QueryCrashBarrierLoad(side)
    \/ \E side \in Sides : QueryRailingLoad(side)
    \/ QueryMedianLineLoad
    \/ \E name \in ComponentNames : QueryHasComponent(name)
    \/ \E d \in WidthOffsets, tol \in Tolerances :
          ValidateAgainstBridge(layout.total_width + d, tol)
    \/ \E offset \in Widths, side \in Sides : CrashBarrierToGlobal(offset, side)
    \/ \E span \in Spans : CreateDefaultLoadPlacement(span)
    \/ Forget

-----------------------------------------------------------------------------
(* Properties of the geometry core                                         *)

\* the width the build rule gives the component of that name (0: left out)
ExpectedWidth(L, name) ==
    CASE name = "railing_left" -> IF L.no_of_footpaths >= 1 THEN L.railing_width ELSE 0
      [] name = "footpath_left" -> IF L.no_of_footpaths >= 1 THEN L.footpath_width ELSE 0
      [] name = "crash_barrier_left" -> L.crash_barrier_width
      [] name = "carriageway_left" -> L.carriageway_width \div 2
      [] name = "median" -> L.median_width
      [] name = "carriageway_right" -> L.carriageway_width \div 2
      [] name = "crash_barrier_right" -> L.crash_barrier_width
      [] name = "footpath_right" -> IF L.no_of_footpaths >= 2 THEN L.footpath_width ELSE 0
      [] name = "railing_right" -> IF L.no_of_footpaths >= 2 THEN L.railing_width ELSE 0

ExpectedNames(L) == SelectSeq(ORDER, LAMBDA name : ExpectedWidth(L, name) > 0)

\* C1: components() is exactly the subsequence of the canonical order whose
\* members have strictly positive width (left railing/footpath only if
\* n >= 1, right footpath/railing only if n >= 2, each carriageway half of
\* width cw/2), and total_width is the sum of the widths of those components.
C1_ComponentsAreCanonicalSubsequence ==
    layout.built =>
        LET names == ExpectedNames(layout)
            comps == components(layout)
        IN  /\ Len(comps) = Len(names)
            /\ \A i \in 1..Len(names) :
                  /\ comps[i].name = names[i]
                  /\ comps[i].width = ExpectedWidth(layout, names[i])
            /\ layout.total_width =
                  SumSeq([i \in 1..Len(names) |-> ExpectedWidth(layout, names[i])])

\* a layout with one footpath, no median and a non-positive railing width
C1_Witness ==
    /\ layout.built
    /\ layout.no_of_footpaths = 1
    /\ layout.median_width = 0
    /\ layout.railing_width < 0
    /\ layout.footpath_width > 0
    /\ layout.carriageway_width > 0
    /\ Len(layout._components) >= 4

CountOf(registry, kind) == Cardinality({i \in 1..Len(registry) : registry[i] = kind})

\* C3: create_default_load_placement completes without raising and returns a
\* manager whose bridge has the given span and the width of
\* calculate_bridge_width, with one DeckLoad, one OverlayLoad, one MedianLoad,
\* a left and a right CrashBarrier, and one FootpathLoad and one RailingLoad
\* exactly when no_of_footpaths >= 1.
C3_DefaultPlacementReturnsManager ==
    (result.op = "create_default_load_placement") =>
        LET optional == IF layout.no_of_footpaths >= 1 THEN 1 ELSE 0
            registry == result.manager.registry
        IN  /\ result.status = "ok"
            /\ result.manager.bridge =
                  BridgeGeometry(result.a,
                      layout.carriageway_width + 2 * layout.crash_barrier_width
                      + layout.median_width
                      + layout.no_of_footpaths * layout.footpath_width
                      + layout.no_of_footpaths * layout.railing_width)
            /\ CountOf(registry, "DeckLoad") = 1
            /\ CountOf(registry, "OverlayLoad") = 1
            /\ CountOf(registry, "MedianLoad") = 1
            /\ CountOf(registry, "CrashBarrier:left") = 1
            /\ CountOf(registry, "CrashBarrier:right") = 1
            /\ CountOf(registry, "FootpathLoad") = optional
            /\ CountOf(registry, "RailingLoad") = optional
            /\ Len(registry) = 5 + 2 * optional

\* the component of the layout with that name
TheComponent(L, key) ==
    CHOOSE c \in {L._components[i] : i \in 1..Len(L._components)} : c.name = key

QueryKey(op, side) ==
    CASE op = "footpath_load" -> "footpath_" \o side
      [] op = "crash_barrier_load" -> "crash_barrier_" \o side
      [] op = "railing_load" -> "railing_" \o side
      [] op = "median_line_load" -> "median"

ExpectedGeometry(op, comp, span) ==
    IF op = "footpath_load"
    THEN << [x |-> comp.x_start, z |-> 0], [x |-> comp.x_end, z |-> 0],
            [x |-> comp.x_end, z |-> span], [x |-> comp.x_start, z |-> span] >>
    ELSE << [x |-> (comp.x_start + comp.x_end) \div 2, z |-> 0],
            [x |-> (comp.x_start + comp.x_end) \div 2, z |-> span] >>

LayoutQueries == {"footpath_load", "crash_barrier_load", "railing_load", "median_line_load"}

\* C4: each layout-driven query fails with a not-found error naming the
\* resolved key exactly when the layout has no component of that key, and
\* otherwise returns the geometry derived from that component's
\* x_start/x_end/center over z in [0, span]; has_component never fails.
C4_QueriesFailExactlyWhenAbsent ==
    /\ (result.op \in LayoutQueries) =>
          LET key == QueryKey(result.op, result.side)
          IN  IF has_component(layout, key)
              THEN /\ result.status = "ok"
                   /\ result.points =
                         ExpectedGeometry(result.op, TheComponent(layout, key), bridge.span)
              ELSE /\ result.status = "KeyError"
                   /\ result.key = key
                   /\ result.points = NoPoints
    /\ (result.op = "has_component") =>
          /\ result.status = "ok"
          /\ result.flag = (result.key \in {layout._components[i].name :
                                               i \in 1..Len(layout._components)})

\* footpath_load("right") on a layout with a single (left) footpath
C4_Witness ==
    /\ result.op = "footpath_load"
    /\ result.side = "right"
    /\ result.status = "KeyError"
    /\ result.key = "footpath_right"
    /\ has_component(layout, "footpath_left")

\* C5: validate_against_bridge(bridge_width, tol) fails with an invalid-input
\* error if and only if |total_width - bridge_width| > tol (a difference equal
\* to tol passes), and in both outcomes the layout is left unchanged.
C5_ValidateStrictTolerance ==
    [][ (result'.op = "validate_against_bridge") =>
            /\ layout' = layout
            /\ result'.status \in {"ok", "ValueError"}
            /\ (result'.status = "ValueError")
                  <=> (Abs(layout.total_width - result'.a) > result'.b) ]_vars

\* a validation that passed with a difference equal to a positive tolerance
C5_Witness ==
    /\ result.op = "validate_against_bridge"
    /\ result.status = "ok"
    /\ result.b > 0
    /\ Abs(layout.total_width - result.a) = result.b

\* C6: CrashBarrier.to_global() returns the line from (x, 0) to (x, span) with
\* x = offset_from_edge for side "left" and x = width - offset_from_edge for
\* side "right"; for every other side it fails with an invalid-input error
\* and returns no geometry.
C6_CrashBarrierSides ==
    (result.op = "CrashBarrier.to_global") =>
        LET x == IF result.side = "left" THEN result.a ELSE bridge.width - result.a
        IN  IF result.side \in {"left", "right"}
            THEN /\ result.status = "ok"
                 /\ result.points = << [x |-> x, z |-> 0], [x |-> x, z |-> bridge.span] >>
            ELSE /\ result.status = "ValueError"
                 /\ result.points = NoPoints

\* a crash barrier whose side is neither "left" nor "right"
C6_Witness ==
    /\ result.op = "CrashBarrier.to_global"
    /\ result.side = "centre"
    /\ result.status = "ValueError"
    /\ bridge.width > 0

-----------------------------------------------------------------------------
(* Texts of line edits.  A text is the fixed-point rendering the program   *)
(* writes ("{:.2f}" or "{:.1f}": form "fixed"), another spelling of a      *)
(* number that the user typed (form "typed", e.g. "12" or "12." for        *)
(* 12.0), the empty text, or a non-empty text float() rejects (".").       *)
(* val counts hundredths for the carriageway field and tenths for the      *)
(* fields of the Material Properties dialog.                               *)

Fixed(v) == [form |-> "fixed", val |-> v]

Typed(v) == [form |-> "typed", val |-> v]

Blank == [form |-> "blank", val |-> 0]

Junk == [form |-> "junk", val |-> 0]

\* float(text): ok = FALSE stands for ValueError
float(text) == [ok |-> text.form \in {"fixed", "typed"}, val |-> text.val]

\* a text of white space only (the validators of the line edits reject it
\* when typed)
Spaces == [form |-> "spaces", val |-> 0]

\* str.strip(): a text of white space becomes the empty text; the numbers
\* are spelled without surrounding white space
strip(text) == IF text.form = "spaces" THEN Blank ELSE text

\* truth value of a str: non-empty
NonEmpty(text) == text.form \notin {"blank", "none"}

-----------------------------------------------------------------------------
(* core/utils/common.py: carriageway limits, in hundredths of a metre      *)

CARRIAGEWAY_WIDTH_MIN == 425

CARRIAGEWAY_WIDTH_MIN_WITH_MEDIAN == 750

CARRIAGEWAY_WIDTH_MAX_LIMIT == 2360

\* QDoubleValidator(0.0, 100.0, 2) of the carriageway field
CARRIAGEWAY_VALIDATOR_BOTTOM == 0

CARRIAGEWAY_VALIDATOR_TOP == 10000

MSG_NOT_NUMERIC == "Please enter a numeric carriageway width."

MSG_MIN_WITH_MEDIAN == "IRC 5 Clause 104.3.1 requires minimum carriageway width on both sides of the median to be at least 7.5 m."

MSG_MIN == "IRC 5 Clause 104.3.1 requires minimum carriageway width of 4.25 m."

MSG_MAX == "Software limits carriageway width upto 23.6 m"

-----------------------------------------------------------------------------
(* InputDock: carriageway-width reconciliation                             *)

_is_median_included(median_text) == median_text \in {"Yes", "yes", "YES"}

_carriageway_limits_swapped(median_text) ==
    [min_width |-> IF _is_median_included(median_text)
                   THEN CARRIAGEWAY_WIDTH_MIN
                   ELSE CARRIAGEWAY_WIDTH_MIN_WITH_MEDIAN,
     max_width |-> CARRIAGEWAY_WIDTH_MAX_LIMIT]

_carriageway_limits(median_text) ==
    [min_width |-> IF _is_median_included(median_text)
                   THEN CARRIAGEWAY_WIDTH_MIN_WITH_MEDIAN
                   ELSE CARRIAGEWAY_WIDTH_MIN,
     max_width |-> CARRIAGEWAY_WIDTH_MAX_LIMIT]

\* the placeholder text, by its parts
_update_carriageway_placeholder(median_text) ==
    [min_width |-> _carriageway_limits(median_text).min_width,
     max_width |-> _carriageway_limits(median_text).max_width,
     per_side |-> _is_median_included(median_text)]

\* a validation that returns before it reads the field
validate_carriageway_width_returns_early(field_text, median_text, show_message) ==
    [text |-> field_text, message |-> ""]

\* validate_carriageway_width: the text the field holds afterwards and the
\* warning shown ("": none)
validate_carriageway_width(field_text, median_text, show_message) ==
    LET text == strip(field_text)
        parsed == float(text)
        limits == _carriageway_limits(median_text)
        include_median == _is_median_included(median_text)
        message == IF parsed.val < limits.min_width
                   THEN (IF include_median THEN MSG_MIN_WITH_MEDIAN ELSE MSG_MIN)
                   ELSE IF parsed.val > limits.max_width THEN MSG_MAX ELSE ""
        value == IF parsed.val < limits.min_width
                 THEN limits.min_width
                 ELSE IF parsed.val > limits.max_width THEN limits.max_width
                 ELSE parsed.val
    IN  IF ~NonEmpty(text)
        THEN [text |-> field_text, message |-> ""]
        ELSE IF ~parsed.ok
        THEN [text |-> Blank, message |-> IF show_message THEN MSG_NOT_NUMERIC ELSE ""]
        ELSE [text |-> Fixed(value),
              message |-> IF message # "" /\ show_message THEN message ELSE ""]

\* QDoubleValidator.validate(text) = Acceptable: a number within the range
Acceptable(text) ==
    /\ float(text).ok
    /\ text.val >= CARRIAGEWAY_VALIDATOR_BOTTOM
    /\ text.val <= CARRIAGEWAY_VALIDATOR_TOP

\* the values the user enters: around each limit, and the validator's ends
CarriagewayEntries ==
    { CARRIAGEWAY_VALIDATOR_BOTTOM, 300, 500,
      CARRIAGEWAY_WIDTH_MIN - 1, CARRIAGEWAY_WIDTH_MIN, CARRIAGEWAY_WIDTH_MIN + 1,
      CARRIAGEWAY_WIDTH_MIN_WITH_MEDIAN - 1, CARRIAGEWAY_WIDTH_MIN_WITH_MEDIAN,
      CARRIAGEWAY_WIDTH_MIN_WITH_MEDIAN + 1, 1200,
      CARRIAGEWAY_WIDTH_MAX_LIMIT - 1, CARRIAGEWAY_WIDTH_MAX_LIMIT,
      CARRIAGEWAY_WIDTH_MAX_LIMIT + 1, 3000, CARRIAGEWAY_VALIDATOR_TOP }

CarriagewayTexts ==
    {Blank, Junk} \cup {Fixed(v) : v \in CarriagewayEntries}
                  \cup {Typed(v) : v \in CarriagewayEntries}

NoEvent == [handler |-> "none", text |-> Blank]

DockInit ==
    /\ carriageway_input = [text |-> Blank, placeholder |-> _update_carriageway_placeholder("No")]
    /\ include_median_combo = "No"
    /\ message_box = ""
    /\ event = NoEvent

\* the user types into the carriageway field (no handler is connected to it)
TypeCarriageway(text) ==
    /\ text # carriageway_input.text
    /\ carriageway_input' = [carriageway_input EXCEPT !.text = text]
    /\ message_box' = ""
    /\ event' = [handler |-> "textEdited", text |-> text]
    /\ UNCHANGED include_median_combo
    /\ UNCHANGED <<geoVars, matVars, restVars>>

\* editingFinished (Return, or the field loses focus): emitted only while the
\* validator accepts the text; runs validate_carriageway_width()
CarriagewayEditingFinished ==
    /\ Acceptable(carriageway_input.text)
    /\ LET done == validate_carriageway_width(carriageway_input.text, include_median_combo, TRUE)
       IN  /\ carriageway_input' = [carriageway_input EXCEPT !.text = done.text]
           /\ message_box' = done.message
    /\ event' = [handler |-> "editingFinished", text |-> carriageway_input.text]
    /\ UNCHANGED include_median_combo
    /\ UNCHANGED <<geoVars, matVars, restVars>>

\* the user picks the other item of the Include Median selector:
\* on_include_median_changed
IncludeMedianChanged(value) ==
    /\ value # include_median_combo
    /\ include_median_combo' = value
    /\ LET done == validate_carriageway_width(carriageway_input.text, value, FALSE)
       IN  /\ carriageway_input' = [text |-> done.text,
                                    placeholder |-> _update_carriageway_placeholder(value)]
           /\ message_box' = done.message
    /\ event' = [handler |-> "on_include_median_changed", text |-> carriageway_input.text]
    /\ UNCHANGED <<geoVars, matVars, restVars>>

NextDock ==
    \/ \E text \in CarriagewayTexts : TypeCarriageway(text)
    \/ CarriagewayEditingFinished
    \/ \E value \in {"No", "Yes"} : IncludeMedianChanged(value)

-----------------------------------------------------------------------------
(* Properties of the input dock                                            *)

Max(a, b) == IF a >= b THEN a ELSE b

Min(a, b) == IF a <= b THEN a ELSE b

\* the handlers that run validate_carriageway_width
ValidationRan == event.handler \in {"editingFinished", "on_include_median_changed"}

ParseableEntry == event.text.form \in {"fixed", "typed"}

ActiveMinWidth == IF include_median_combo = "Yes" THEN 750 ELSE 425

BelowMinimumWarning == IF include_median_combo = "Yes" THEN MSG_MIN_WITH_MEDIAN ELSE MSG_MIN

FieldHoldsClamped ==
    /\ carriageway_input.text.form = "fixed"
    /\ carriageway_input.text.val = Min(Max(event.text.val, ActiveMinWidth), 2360)

\* C7 (as stated): whenever carriageway-width validation runs on a parseable
\* value v, the field afterwards holds min(max(v, min_width), 23.6) with
\* min_width = 7.5 if the median selector is "Yes" and 4.25 otherwise; a
\* below-minimum warning is produced exactly when v < min_width, the
\* software-limit warning exactly when v > 23.6, and no warning when v is
\* within the bounds.
C7_AsStated ==
    (ValidationRan /\ ParseableEntry) =>
        /\ FieldHoldsClamped
        /\ (message_box = BelowMinimumWarning) <=> (event.text.val < ActiveMinWidth)
        /\ (message_box = MSG_MAX) <=> (event.text.val > 2360)
        /\ (message_box = "") <=> (event.text.val >= ActiveMinWidth /\ event.text.val <= 2360)

\* C7 (amended): whenever carriageway-width validation runs on a parseable
\* value v, the field afterwards holds min(max(v, min_width), 23.6) written
\* with two decimals.  When the run was started by finishing an edit of the
\* field, the below-minimum warning (its variant chosen by the median
\* selector) is shown exactly when v < min_width, the software-limit warning
\* exactly when v > 23.6, and none when v is within the bounds.  When the run
\* was started by changing the median selector, no warning is shown at all.
C7_CarriagewayClamp ==
    (ValidationRan /\ ParseableEntry) =>
        /\ FieldHoldsClamped
        /\ (event.handler = "editingFinished") =>
              /\ (message_box = BelowMinimumWarning) <=> (event.text.val < ActiveMinWidth)
              /\ (message_box = MSG_MAX) <=> (event.text.val > 2360)
              /\ (message_box = "") <=> (event.text.val >= ActiveMinWidth /\ event.text.val <= 2360)
        /\ (event.handler = "on_include_median_changed") => message_box = ""

\* 5.0 stood in the field when the median was switched on: the field is
\* raised to 7.50 without a warning
C7_Witness ==
    /\ event.handler = "on_include_median_changed"
    /\ event.text.val = 500
    /\ include_median_combo = "Yes"
    /\ carriageway_input.text = Fixed(750)
    /\ message_box = ""

\* 3.0 was entered with the median included: clamped to 7.50 with the
\* with-median warning
C7_EditWitness ==
    /\ event.handler = "editingFinished"
    /\ event.text.val = 300
    /\ include_median_combo = "Yes"
    /\ carriageway_input.text = Fixed(750)
    /\ message_box = MSG_MIN_WITH_MEDIAN

-----------------------------------------------------------------------------
(* Material grades.  A grade name is the sequence of its characters, so    *)
(* that the digits of a name are found the way the program finds them.     *)

\* core/utils/common.py
VALUES_MATERIAL ==
    << <<"E", " ", "2", "5", "0", "A">>, <<"E", " ", "2", "5", "0", "B", "R">>,
       <<"E", " ", "2", "5", "0", "B", "0">>, <<"E", " ", "2", "5", "0", "C">>,
       <<"E", " ", "2", "7", "5", "A">>, <<"E", " ", "2", "7", "5", "B", "R">>,
       <<"E", " ", "2", "7", "5", "B", "0">>, <<"E", " ", "2", "7", "5", "C">>,
       <<"E", " ", "3", "0", "0", "A">>, <<"E", " ", "3", "0", "0", "B", "R">>,
       <<"E", " ", "3", "0", "0", "B", "0">>, <<"E", " ", "3", "0", "0", "C">>,
       <<"E", " ", "3", "5", "0", "A">>, <<"E", " ", "3", "5", "0", "B", "R">>,
       <<"E", " ", "3", "5", "0", "B", "0">>, <<"E", " ", "3", "5", "0", "C">>,
       <<"E", " ", "4", "1", "0", "A">>, <<"E", " ", "4", "1", "0", "B", "R">>,
       <<"E", " ", "4", "1", "0", "B", "0">>, <<"E", " ", "4", "1", "0", "C">>,
       <<"E", " ", "4", "5", "0", "A">>, <<"E", " ", "4", "5", "0", "B", "R">>,
       <<"E", " ", "5", "5", "0", "A">>, <<"E", " ", "5", "5", "0", "B", "R">>,
       <<"E", " ", "6", "0", "0", "A">>, <<"E", " ", "6", "0", "0", "B", "R">>,
       <<"E", " ", "6", "5", "0", "A">>, <<"E", " ", "6", "5", "0", "B", "R">> >>

VALUES_DECK_CONCRETE_GRADE ==
    << <<"M", " ", "2", "5">>, <<"M", " ", "3", "0">>, <<"M", " ", "3", "5">>,
       <<"M", " ", "4", "0">>, <<"M", " ", "4", "5">>, <<"M", " ", "5", "0">>,
       <<"M", " ", "5", "5">>, <<"M", " ", "6", "0">>, <<"M", " ", "6", "5">>,
       <<"M", " ", "7", "0">>, <<"M", " ", "7", "5">>, <<"M", " ", "8", "0">>,
       <<"M", " ", "8", "5">>, <<"M", " ", "9", "0">> >>

\* the empty str
EmptyStr == <<>>

\* seq as a set (x in list)
Items(list) == {list[i] : i \in DOMAIN list}

\* str.isdigit() of one character
isdigit(ch) == ch \in {"0", "1", "2", "3", "4", "5", "6", "7", "8", "9"}

DigitValue(ch) ==
    CASE ch = "0" -> 0 [] ch = "1" -> 1 [] ch = "2" -> 2 [] ch = "3" -> 3
      [] ch = "4" -> 4 [] ch = "5" -> 5 [] ch = "6" -> 6 [] ch = "7" -> 7
      [] ch = "8" -> 8 [] ch = "9" -> 9

\* int(digits) of a non-empty str of digits
RECURSIVE int(_)
int(digits) ==
    IF Len(digits) = 1
    THEN DigitValue(digits[1])
    ELSE 10 * int(SubSeq(digits, 1, Len(digits) - 1)) + DigitValue(digits[Len(digits)])

\* ''.join(ch for ch in grade if ch.isdigit())
DigitsOf(grade) == SelectSeq(grade, isdigit)

_extract_numeric_grade(grade, default) ==
    LET digits == DigitsOf(grade)
    IN  IF digits # <<>> THEN int(digits) ELSE default

-----------------------------------------------------------------------------
(* desktop/ui/docks/input_dock.py: tables of the Material Properties       *)
(* dialog.  Numbers of the property fields are counted in tenths.          *)

FU == "Ultimate Tensile Strength, Fu (MPa)"

FY == "Yield Strength, Fy (MPa)"

E_MODULUS == "Modulus of Elasticity, E (GPa)"

G_MODULUS == "Modulus of Rigidity, G (GPa)"

POISSON == "Poisson's Ratio, nu"

THERMAL == "Thermal Expansion Coefficient, (x10^-6/degC)"

FCK == "Characteristic Compressive (Cube) Strength of Concrete, (fck)cu (MPa)"

FCTM == "Mean Tensile Strength of Concrete, fctm (MPa)"

ECM == "Secant Modulus of Elasticity of Concrete, Ecm (GPa)"

ECM_FACTOR == "Ecm Multiplication Factor"

STEEL_MEMBER_FIELDS == <<FU, FY, E_MODULUS, G_MODULUS, POISSON, THERMAL>>

DECK_MEMBER_FIELDS == <<FCK, FCTM, ECM, ECM_FACTOR>>

STEEL_MODULUS_E_GPA == 2000

STEEL_MODULUS_G_GPA == 770

STEEL_POISSON_RATIO == 3

STEEL_THERMAL_COEFF == 117

STEEL_GRADE_BASE_VALUES ==
    (250 :> [Fy |-> 250, Fu |-> 410]) @@ (275 :> [Fy |-> 275, Fu |-> 430]) @@
    (300 :> [Fy |-> 300, Fu |-> 440]) @@ (350 :> [Fy |-> 350, Fu |-> 490]) @@
    (410 :> [Fy |-> 410, Fu |-> 540]) @@ (450 :> [Fy |-> 450, Fu |-> 570]) @@
    (550 :> [Fy |-> 550, Fu |-> 650]) @@ (600 :> [Fy |-> 600, Fu |-> 700]) @@
    (650 :> [Fy |-> 650, Fu |-> 750])

CUSTOM_ECM_FACTOR_LABEL == "Custom"

\* value in tenths; -1 stands for None
ECM_FACTOR_OPTIONS ==
    << <<"Quartzite/granite aggregates = 1", 10>>,
       <<"Limestone aggregates = 0.9", 9>>,
       <<"Sandstone aggregates = 0.7", 7>>,
       <<"Basalt aggregates = 1.2", 12>>,
       <<CUSTOM_ECM_FACTOR_LABEL, -1>> >>

ECM_FACTOR_LABELS == [i \in DOMAIN ECM_FACTOR_OPTIONS |-> ECM_FACTOR_OPTIONS[i][1]]

DEFAULT_ECM_FACTOR_LABEL == ECM_FACTOR_OPTIONS[1][1]

MEMBER_OPTIONS == <<"Girder", "Cross Bracing", "End Diaphragm", "Deck">>

STEEL_MEMBERS == {"Girder", "Cross Bracing", "End Diaphragm"}

\* None, where a str is expected
None == [form |-> "none", val |-> 0]

\* "{:.1f}".format(x), x counted in tenths
Format1(tenths) == Fixed(tenths)

\* floor of the square root (Newton's iteration from above)
RECURSIVE ISqrtFrom(_, _)
ISqrtFrom(n, x) ==
    CHOOSE root \in {IF y >= x THEN x ELSE ISqrtFrom(n, y) : y \in {(x + n \div x) \div 2}} : TRUE

ISqrt(n) == IF n = 0 THEN 0 ELSE ISqrtFrom(n, n)

\* round(k * math.sqrt(n)): the integer nearest to the root of k*k*n
RoundRoot(k, n) == (ISqrt(4 * k * k * n) + 1) \div 2

-----------------------------------------------------------------------------
(* MaterialPropertiesDialog.  Each method is an operator from the dialog   *)
(* (self) and the grades selected in the parent dock to the dialog after   *)
(* the call.  _loading is TRUE only inside a method, where it keeps the    *)
(* slots of the widgets the method sets from running; the operators set    *)
(* the widgets without running the slots.                                  *)

\* body(value), the value computed once
Bind(value, body(_)) == CHOOSE outcome \in {body(bound) : bound \in {value}} : TRUE

\* a member's record when it holds no Ecm factor (factor_label None)
NoneLabel == "None"

_materials_for_member(member) ==
    IF member = "Deck" THEN VALUES_DECK_CONCRETE_GRADE ELSE VALUES_MATERIAL

_get_parent_grade(parent, member) == parent[member]

_steel_defaults(grade) ==
    LET grade_value == _extract_numeric_grade(grade, 250)
        defaults == IF grade_value \in DOMAIN STEEL_GRADE_BASE_VALUES
                    THEN STEEL_GRADE_BASE_VALUES[grade_value]
                    ELSE STEEL_GRADE_BASE_VALUES[250]
    IN  (FU :> Format1(10 * defaults.Fu)) @@ (FY :> Format1(10 * defaults.Fy)) @@
        (E_MODULUS :> Format1(STEEL_MODULUS_E_GPA)) @@
        (G_MODULUS :> Format1(STEEL_MODULUS_G_GPA)) @@
        (POISSON :> Format1(STEEL_POISSON_RATIO)) @@
        (THERMAL :> Format1(STEEL_THERMAL_COEFF))

\* factor_value is counted in tenths
_deck_defaults(grade, factor_value) ==
    LET strength == _extract_numeric_grade(grade, 25)
        fctm == RoundRoot(7, strength)
        ecm == RoundRoot(5 * factor_value, strength)
    IN  (FCK :> Format1(10 * strength)) @@ (FCTM :> Format1(fctm)) @@
        (ECM :> Format1(ecm)) @@ (ECM_FACTOR :> Format1(factor_value))

_factor_value_from_label(label, custom_factor) ==
    LET hits == {i \in DOMAIN ECM_FACTOR_OPTIONS : ECM_FACTOR_OPTIONS[i][1] = label}
    IN  IF hits = {}
        THEN 10
        ELSE LET value == ECM_FACTOR_OPTIONS[CHOOSE i \in hits : \A j \in hits : i <= j][2]
             IN  IF value # -1
                 THEN value
                 ELSE IF NonEmpty(custom_factor) /\ float(custom_factor).ok
                 THEN float(custom_factor).val
                 ELSE 10

\* factor_label = NoneLabel, custom_factor = None: the arguments left out
_default_fields_for_member(parent, member, material, factor_label, custom_factor) ==
    LET materials == _materials_for_member(member)
        grade == IF material # EmptyStr THEN material
                 ELSE IF _get_parent_grade(parent, member) # EmptyStr
                 THEN _get_parent_grade(parent, member)
                 ELSE IF materials # <<>> THEN materials[1] ELSE EmptyStr
        label == IF factor_label # NoneLabel THEN factor_label ELSE DEFAULT_ECM_FACTOR_LABEL
    IN  IF member = "Deck"
        THEN _deck_defaults(grade, _factor_value_from_label(label, custom_factor))
        ELSE _steel_defaults(grade)

_create_default_entry(parent, member) ==
    LET material == _get_parent_grade(parent, member)
    IN  [material |-> material,
         fields |-> _default_fields_for_member(parent, member, material, NoneLabel, None),
         is_default |-> TRUE,
         factor_label |-> IF member = "Deck" THEN DEFAULT_ECM_FACTOR_LABEL ELSE NoneLabel,
         custom_factor |-> IF member = "Deck" THEN Fixed(10) ELSE None]

_initialize_member_data(parent) ==
    [member \in Items(MEMBER_OPTIONS) |-> _create_default_entry(parent, member)]

\* widget.setText("{:.1f}".format(float(value))), or the value itself when
\* float() rejects it
Populated(value) == IF float(value).ok THEN Format1(float(value).val) ELSE value

_populate_steel_fields(self, data) ==
    [self EXCEPT !.steel_field_inputs =
        [label \in DOMAIN self.steel_field_inputs |-> Populated(data.fields[label])]]

_update_custom_factor_visibility(self, label) ==
    [self EXCEPT !.deck_factor_custom_input.visible = (label = CUSTOM_ECM_FACTOR_LABEL)]

_populate_deck_fields(self, data) ==
    LET factor_label == IF data.factor_label \in Items(ECM_FACTOR_LABELS)
                        THEN data.factor_label ELSE DEFAULT_ECM_FACTOR_LABEL
    IN  [_update_custom_factor_visibility(
             [self EXCEPT !.deck_factor_combo = factor_label], factor_label)
         EXCEPT
            !.deck_factor_custom_input.text = Populated(data.custom_factor),
            !.deck_field_inputs =
                [label \in DOMAIN self.deck_field_inputs |-> Populated(data.fields[label])]]

_populate_fields(self, member, data) ==
    IF member = "Deck" THEN _populate_deck_fields(self, data)
    ELSE _populate_steel_fields(self, data)

_save_current_member_form(self) ==
    IF self.current_member = ""
    THEN self
    ELSE LET data == self.member_data[self.current_member]
             custom == IF NonEmpty(self.deck_factor_custom_input.text)
                       THEN self.deck_factor_custom_input.text ELSE Fixed(10)
             factor_value == _factor_value_from_label(self.deck_factor_combo, custom)
             saved == IF self.current_member = "Deck"
                      THEN [data EXCEPT
                               !.material = self.material_combo,
                               !.factor_label = self.deck_factor_combo,
                               !.custom_factor = custom,
                               !.fields = [label \in DOMAIN data.fields |->
                                              IF label = ECM_FACTOR
                                              THEN Format1(factor_value)
                                              ELSE self.deck_field_inputs[label]],
                               !.is_default = self.default_checkbox]
                      ELSE [data EXCEPT
                               !.material = self.material_combo,
                               !.fields = [label \in DOMAIN data.fields |->
                                              self.steel_field_inputs[label]],
                               !.is_default = self.default_checkbox]
         IN  [self EXCEPT !.member_data[self.current_member] = saved]

_apply_defaults_for_member(self, parent, member, update_ui) ==
    LET data == self.member_data[member]
        materials == _materials_for_member(member)
        wanted == IF _get_parent_grade(parent, member) # EmptyStr
                  THEN _get_parent_grade(parent, member) ELSE data.material
        grade == IF wanted \notin Items(materials) /\ materials # <<>>
                 THEN materials[1] ELSE wanted
    IN  Bind(IF member = "Deck"
             THEN [data EXCEPT
                      !.material = grade,
                      !.factor_label = DEFAULT_ECM_FACTOR_LABEL,
                      !.custom_factor = Fixed(10),
                      !.fields = _deck_defaults(grade,
                          _factor_value_from_label(DEFAULT_ECM_FACTOR_LABEL, None)),
                      !.is_default = TRUE]
             ELSE [data EXCEPT
                      !.material = grade,
                      !.fields = _steel_defaults(grade),
                      !.is_default = TRUE],
        LAMBDA fresh :
        IF update_ui /\ member = self.current_member
        THEN [_populate_fields(
                 [self EXCEPT !.member_data[member] = fresh,
                              !.material_combo =
                                  IF fresh.material \in Items(_materials_for_member(member))
                                  THEN fresh.material ELSE @],
                 member, fresh)
              EXCEPT !.default_checkbox = TRUE]
        ELSE [self EXCEPT !.member_data[member] = fresh])

_on_member_changed(self, parent, member) ==
    Bind(IF self.current_member # "" THEN _save_current_member_form(self) ELSE self,
    LAMBDA saved :
    Bind(IF saved.member_data[member].is_default
         THEN _apply_defaults_for_member([saved EXCEPT !.current_member = member],
                                         parent, member, FALSE)
         ELSE [saved EXCEPT !.current_member = member],
    LAMBDA applied :
    LET materials == _materials_for_member(member)
        data == applied.member_data[member]
        material == IF data.material \in Items(materials) THEN data.material
                    ELSE materials[1]
        shown == [data EXCEPT !.material = material]
    IN  _populate_fields(
            [applied EXCEPT !.member_data[member] = shown,
                            !.material_combo = material,
                            !.default_checkbox = data.is_default],
            member, shown)))

_reset_keeps_fields(self, parent) ==
    IF self.current_member = ""
    THEN self
    ELSE LET member == self.current_member
             data == self.member_data[member]
         IN  [self EXCEPT !.member_data[member].is_default = TRUE,
                          !.default_checkbox = TRUE]

_reset_current_member_to_defaults(self, parent) ==
    IF self.current_member = ""
    THEN self
    ELSE Bind(_apply_defaults_for_member(self, parent, self.current_member, FALSE),
         LAMBDA applied :
         LET member == self.current_member
             data == applied.member_data[member]
             materials == _materials_for_member(member)
             material == IF data.material = EmptyStr THEN applied.material_combo
                         ELSE IF data.material \in Items(materials) THEN data.material
                         ELSE materials[1]
             shown == IF data.material # EmptyStr /\ data.material \notin Items(materials)
                      THEN [data EXCEPT !.material = material] ELSE data
         IN  Bind(_populate_fields([applied EXCEPT !.member_data[member] = shown,
                                                   !.material_combo = material],
                                   member, shown),
             LAMBDA populated :
             _save_current_member_form([populated EXCEPT !.default_checkbox = TRUE])))

\* _handle_user_override without the clearing of the Default box and flag
_handle_user_override_keeps_default(self) == _save_current_member_form(self)

_handle_user_override(self) ==
    Bind(IF self.current_member # ""
         THEN [self EXCEPT !.default_checkbox = FALSE,
                           !.member_data[self.current_member].is_default = FALSE]
         ELSE [self EXCEPT !.default_checkbox = FALSE],
    LAMBDA flagged : _save_current_member_form(flagged))

\* material_combo.currentTextChanged, the combo showing material already
_on_material_changed(self, material) ==
    _handle_user_override(
        IF self.current_member # ""
        THEN [self EXCEPT !.member_data[self.current_member].material = material]
        ELSE self)

\* default_checkbox.stateChanged, the box showing the new state already
_on_default_toggled(self, parent, checked) ==
    IF checked
    THEN _reset_current_member_to_defaults(self, parent)
    ELSE IF self.current_member # ""
    THEN [self EXCEPT !.member_data[self.current_member].is_default = FALSE]
    ELSE self

_on_factor_changed(self, label) ==
    _handle_user_override(_update_custom_factor_visibility(self, label))

\* member_combo.setCurrentIndex emits currentTextChanged only on a change
set_member(self, parent, member) ==
    IF member \in Items(MEMBER_OPTIONS) /\ member # self.current_member
    THEN _on_member_changed(self, parent, member)
    ELSE self

RECURSIVE SyncFrom(_, _, _)
SyncFrom(self, parent, i) ==
    IF i > Len(MEMBER_OPTIONS)
    THEN self
    ELSE Bind(IF self.member_data[MEMBER_OPTIONS[i]].is_default
              THEN _apply_defaults_for_member(self, parent, MEMBER_OPTIONS[i],
                                              MEMBER_OPTIONS[i] = self.current_member)
              ELSE self,
         LAMBDA synced : SyncFrom(synced, parent, i + 1))

sync_skips_defaults(self, parent) == self

sync_with_parent_defaults(self, parent) == SyncFrom(self, parent, 1)

closeEvent(self) ==
    Bind(_save_current_member_form(self), LAMBDA saved : [saved EXCEPT !.visible = FALSE])

\* the dialog before MaterialPropertiesDialog.__init__ has filled it
BlankDialog ==
    [exists |-> TRUE, visible |-> FALSE, current_member |-> "",
     member_data |-> [member \in Items(MEMBER_OPTIONS) |-> None],
     material_combo |-> EmptyStr, default_checkbox |-> FALSE,
     steel_field_inputs |-> [label \in Items(STEEL_MEMBER_FIELDS) |-> Blank],
     deck_field_inputs |-> [label \in Items(DECK_MEMBER_FIELDS) \ {ECM_FACTOR} |-> Blank],
     deck_factor_combo |-> ECM_FACTOR_LABELS[1],
     deck_factor_custom_input |-> [text |-> Blank, visible |-> FALSE]]

\* InputDock.material_dialog = None
NoDialog == [BlankDialog EXCEPT !.exists = FALSE]

MaterialPropertiesDialog(parent) ==
    _on_member_changed(
        [BlankDialog EXCEPT !.member_data = _initialize_member_data(parent)],
        parent, MEMBER_OPTIONS[1])

\* member: the member of the parent combo that has the focus, "Girder" if none
show_material_properties_dialog(dialog, parent, member) ==
    Bind(IF ~dialog.exists THEN MaterialPropertiesDialog(parent) ELSE dialog,
    LAMBDA made :
    Bind(sync_with_parent_defaults(made, parent),
    LAMBDA synced :
    Bind(set_member(synced, parent, member),
    LAMBDA selected : [selected EXCEPT !.visible = TRUE])))

-----------------------------------------------------------------------------
(* The Material Properties dialog in use: the user's steps on the parent   *)
(* dock and on the dialog.                                                 *)

\* user changes (selections, edits, toggles) followed in one behaviour
MaxEdits == 2

SteelGradeChoices == {VALUES_MATERIAL[1], VALUES_MATERIAL[19]}

DeckGradeChoices == {VALUES_DECK_CONCRETE_GRADE[1], VALUES_DECK_CONCRETE_GRADE[2]}

GradeChoices(member) == IF member = "Deck" THEN DeckGradeChoices ELSE SteelGradeChoices

\* what the user types into a property field: "12", "."
FieldTexts == {Typed(120), Junk}

\* the property fields the user types into
EditedLabels == {FY, FCK}

\* the members whose grade the user changes in the dock
ReselectedMembers == {"Girder", "Deck"}

\* the Ecm factors the user selects
FactorChoices == {ECM_FACTOR_LABELS[2], CUSTOM_ECM_FACTOR_LABEL}

\* what the user types into the custom factor field: "2", ""
CustomFactorTexts == {Typed(20), Blank}

\* the members whose record the handler changed
Changed(before, after) ==
    IF ~before.exists
    THEN Items(MEMBER_OPTIONS)
    ELSE {member \in Items(MEMBER_OPTIONS) : before.member_data[member] # after.member_data[member]}

\* the record of the member the dialog showed when the handler started
Before(dialog) ==
    IF dialog.exists /\ dialog.current_member # ""
    THEN dialog.member_data[dialog.current_member] ELSE None

Handled(handler, after) ==
    [handler |-> handler, changed |-> Changed(material_dialog, after),
     before |-> Before(material_dialog)]

NoGenerated == [call |-> "none"]

MaterialInit ==
    /\ material_dialog = NoDialog
    /\ grade_combos = [member \in Items(MEMBER_OPTIONS) |->
                          IF member = "Deck" THEN VALUES_DECK_CONCRETE_GRADE[1]
                          ELSE VALUES_MATERIAL[1]]
    /\ dialog_event = [handler |-> "none", changed |-> {}, before |-> None]
    /\ edits = 0
    /\ generated = NoGenerated

OtherUnchanged == UNCHANGED <<geoVars, dockVars, generated, restVars>>

\* the user selects a grade in one of the four material selectors of the dock
ParentSelect(member, grade) ==
    /\ edits < MaxEdits
    /\ grade # grade_combos[member]
    /\ grade_combos' = [grade_combos EXCEPT ![member] = grade]
    /\ dialog_event' = [handler |-> "parent_selection", changed |-> {}, before |-> None]
    /\ edits' = edits + 1
    /\ UNCHANGED material_dialog
    /\ OtherUnchanged

\* "Modify Here": show_material_properties_dialog
OpenDialog(member) ==
    /\ LET after == show_material_properties_dialog(material_dialog, grade_combos, member)
       IN  /\ material_dialog' = after
           /\ dialog_event' = Handled("show_material_properties_dialog", after)
    /\ UNCHANGED <<grade_combos, edits>>
    /\ OtherUnchanged

\* the user closes the window: closeEvent
CloseDialog ==
    /\ material_dialog.exists /\ material_dialog.visible
    /\ LET after == closeEvent(material_dialog)
       IN  /\ material_dialog' = after
           /\ dialog_event' = Handled("closeEvent", after)
    /\ UNCHANGED <<grade_combos, edits>>
    /\ OtherUnchanged

\* the user picks another member in the dialog: _on_member_changed
SelectMember(member) ==
    /\ material_dialog.exists /\ material_dialog.visible
    /\ member # material_dialog.current_member
    /\ LET after == _on_member_changed(material_dialog, grade_combos, member)
       IN  /\ material_dialog' = after
           /\ dialog_event' = Handled("_on_member_changed", after)
    /\ UNCHANGED <<grade_combos, edits>>
    /\ OtherUnchanged

\* the user picks another material in the dialog: _on_material_changed
SelectMaterial(material) ==
    /\ material_dialog.exists /\ material_dialog.visible
    /\ edits < MaxEdits
    /\ material \in Items(_materials_for_member(material_dialog.current_member))
    /\ material # material_dialog.material_combo
    /\ LET after == _on_material_changed(
                        [material_dialog EXCEPT !.material_combo = material], material)
       IN  /\ material_dialog' = after
           /\ dialog_event' = Handled("_on_material_changed", after)
    /\ edits' = edits + 1
    /\ UNCHANGED grade_combos
    /\ OtherUnchanged

\* the user types into a property field of the page shown: textEdited
EditField(label, text) ==
    /\ material_dialog.exists /\ material_dialog.visible
    /\ edits < MaxEdits
    /\ IF material_dialog.current_member = "Deck"
       THEN /\ label \in DOMAIN material_dialog.deck_field_inputs
            /\ text # material_dialog.deck_field_inputs[label]
       ELSE /\ label \in DOMAIN material_dialog.steel_field_inputs
            /\ text # material_dialog.steel_field_inputs[label]
    /\ LET typed == IF material_dialog.current_member = "Deck"
                    THEN [material_dialog EXCEPT !.deck_field_inputs[label] = text]
                    ELSE [material_dialog EXCEPT !.steel_field_inputs[label] = text]
           after == _handle_user_override(typed)
       IN  /\ material_dialog' = after
           /\ dialog_event' = Handled("textEdited", after)
    /\ edits' = edits + 1
    /\ UNCHANGED grade_combos
    /\ OtherUnchanged

\* the user picks another Ecm factor (the selector is hidden while "Custom"
\* is selected): _on_factor_changed
SelectFactor(label) ==
    /\ material_dialog.exists /\ material_dialog.visible
    /\ edits < MaxEdits
    /\ material_dialog.current_member = "Deck"
    /\ ~material_dialog.deck_factor_custom_input.visible
    /\ label # material_dialog.deck_factor_combo
    /\ LET after == _on_factor_changed(
                        [material_dialog EXCEPT !.deck_factor_combo = label], label)
       IN  /\ material_dialog' = after
           /\ dialog_event' = Handled("_on_factor_changed", after)
    /\ edits' = edits + 1
    /\ UNCHANGED grade_combos
    /\ OtherUnchanged

\* the user types into the custom factor field (shown while "Custom" is
\* selected): textEdited
EditCustomFactor(text) ==
    /\ material_dialog.exists /\ material_dialog.visible
    /\ edits < MaxEdits
    /\ material_dialog.current_member = "Deck"
    /\ material_dialog.deck_factor_custom_input.visible
    /\ text # material_dialog.deck_factor_custom_input.text
    /\ LET after == _handle_user_override(
                        [material_dialog EXCEPT !.deck_factor_custom_input.text = text])
       IN  /\ material_dialog' = after
           /\ dialog_event' = Handled("textEdited", after)
    /\ edits' = edits + 1
    /\ UNCHANGED grade_combos
    /\ OtherUnchanged

\* the user clicks the Default checkbox: _on_default_toggled
ToggleDefault ==
    /\ material_dialog.exists /\ material_dialog.visible
    /\ edits < MaxEdits
    /\ LET checked == ~material_dialog.default_checkbox
           after == _on_default_toggled(
                        [material_dialog EXCEPT !.default_checkbox = checked],
                        grade_combos, checked)
       IN  /\ material_dialog' = after
           /\ dialog_event' = Handled(IF checked THEN "default_checked"
                                      ELSE "default_unchecked", after)
    /\ edits' = edits + 1
    /\ UNCHANGED grade_combos
    /\ OtherUnchanged

NextMaterial ==
    \/ \E member \in ReselectedMembers : \E grade \in GradeChoices(member) :
           ParentSelect(member, grade)
    \/ \E member \in Items(MEMBER_OPTIONS) : OpenDialog(member)
    \/ CloseDialog
    \/ \E member \in Items(MEMBER_OPTIONS) : SelectMember(member)
    \/ \E material \in SteelGradeChoices \cup DeckGradeChoices : SelectMaterial(material)
    \/ \E label \in EditedLabels : \E text \in FieldTexts : EditField(label, text)
    \/ \E label \in FactorChoices : SelectFactor(label)
    \/ \E text \in CustomFactorTexts : EditCustomFactor(text)
    \/ ToggleDefault

-----------------------------------------------------------------------------
(* The default generators on their own: every grade of the two lists       *)

CreateDefaultEntry(member, grade) ==
    /\ generated' = [call |-> "_create_default_entry", member |-> member, grade |-> grade,
                     entry |-> _create_default_entry(
                                   [grade_combos EXCEPT ![member] = grade], member)]
    /\ UNCHANGED <<geoVars, dockVars, material_dialog, grade_combos, dialog_event, edits, restVars>>

DefaultFieldsForMember(member, material, factor_label, custom_factor) ==
    /\ generated' = [call |-> "_default_fields_for_member", member |-> member,
                     grade |-> material, factor_label |-> factor_label,
                     custom_factor |-> custom_factor,
                     fields |-> _default_fields_for_member(grade_combos, member, material,
                                                           factor_label, custom_factor)]
    /\ UNCHANGED <<geoVars, dockVars, material_dialog, grade_combos, dialog_event, edits, restVars>>

NextDefaults ==
    \/ \E member \in Items(MEMBER_OPTIONS) :
           \E grade \in Items(_materials_for_member(member)) :
               CreateDefaultEntry(member, grade)
    \/ \E material \in Items(VALUES_DECK_CONCRETE_GRADE) \cup {EmptyStr} :
           \E factor_label \in Items(ECM_FACTOR_LABELS) \cup {NoneLabel} :
               \E custom_factor \in CustomFactorTexts \cup {None} :
                   DefaultFieldsForMember("Deck", material, factor_label, custom_factor)

-----------------------------------------------------------------------------
(* Properties of the Material Properties dialog                            *)

\* the digits up to the first character that is no digit
RECURSIVE LeadingDigits(_)
LeadingDigits(chars) ==
    IF chars = <<>> \/ ~isdigit(Head(chars))
    THEN <<>>
    ELSE <<Head(chars)>> \o LeadingDigits(Tail(chars))

\* the number that follows "E " in the name of a steel grade
NominalGradeNumber(grade) == int(LeadingDigits(SubSeq(grade, 3, Len(grade))))

\* C8: for every grade of the 28-entry steel material list, the default
\* steel property record generated for that grade has Fy and Fu equal to the
\* grade-table entry keyed by the grade's nominal grade number (the number
\* that follows "E " in the grade name).
C8_DefaultsFollowNominalGrade ==
    (generated.call = "_create_default_entry" /\ generated.member \in STEEL_MEMBERS) =>
        LET entry == STEEL_GRADE_BASE_VALUES[NominalGradeNumber(generated.grade)]
        IN  /\ generated.entry.material = generated.grade
            /\ generated.entry.is_default
            /\ generated.entry.fields[FY] = Fixed(10 * entry.Fy)
            /\ generated.entry.fields[FU] = Fixed(10 * entry.Fu)

\* the handlers a user edit of the grade or of a field runs
UserOverrides == {"textEdited", "_on_material_changed", "_on_factor_changed"}

\* the record of the member the dialog shows
CurrentRecord(dialog) == dialog.member_data[dialog.current_member]

\* the default record of a member for the grade selected in the dock
DefaultRecord(member) == _create_default_entry(grade_combos, member)

\* the texts the widgets of the shown page hold are those of the record
PageShows(dialog, data) ==
    IF dialog.current_member = "Deck"
    THEN /\ \A label \in DOMAIN dialog.deck_field_inputs :
                dialog.deck_field_inputs[label] = data.fields[label]
         /\ dialog.deck_factor_combo = data.factor_label
    ELSE dialog.steel_field_inputs = data.fields

\* C9: a user edit of the material grade or of any property field of the
\* current member sets that member's is_default to false and un-checks the
\* Default checkbox; a user re-check of Default sets is_default back to true
\* and replaces every field of the current member (in the record and on the
\* page) by the grade-driven default values, so no manually edited value
\* survives the re-check.
C9_OverrideClearsRecheckRestores ==
    [][ /\ (dialog_event'.handler \in UserOverrides) =>
              /\ ~CurrentRecord(material_dialog').is_default
              /\ ~material_dialog'.default_checkbox
        /\ (dialog_event'.handler = "default_checked") =>
              /\ CurrentRecord(material_dialog') = DefaultRecord(material_dialog'.current_member)
              /\ material_dialog'.default_checkbox
              /\ material_dialog'.material_combo = grade_combos[material_dialog'.current_member]
              /\ PageShows(material_dialog', CurrentRecord(material_dialog'))
      ]_vars

\* Fy of the girder had been typed over ("12") and Default was
\* re-checked: the record is the default record again
C9_Witness ==
    /\ dialog_event.handler = "default_checked"
    /\ material_dialog.current_member = "Girder"
    /\ ~dialog_event.before.is_default
    /\ dialog_event.before.fields[FY] = Typed(120)
    /\ dialog_event.changed = {"Girder"}
    /\ material_dialog.member_data["Girder"].is_default
    /\ material_dialog.member_data["Girder"].fields[FY] = Fixed(2500)
    /\ material_dialog.steel_field_inputs[FY] = Fixed(2500)

\* a text is the former text, or the former number written with one decimal
SameOrReformatted(now, was) == now = was \/ (float(was).ok /\ now = Format1(float(was).val))

\* the step is an opening of the dialog
Opening == dialog_event'.handler = "show_material_properties_dialog"

-----------------------------------------------------------------------------
(* Python floats (IEEE 754 binary64), finite.  The magnitude of a number   *)
(* is the set of the positions of its one bits: {2, -2} is 4.25.  The      *)
(* widths of the geometry core and the values parsed from the fields of    *)
(* the Additional Inputs window are floats.                                *)

\* position of the leading bit
TopBit(S) == LET N == {-e : e \in S} IN -(CHOOSE m \in N : \A f \in N : m <= f)

\* multiplication by 2^k, exact
Shift(S, k) == {e + k : e \in S}

\* the exact sum: bits set in one operand, plus the carries
RECURSIVE Sum(_, _)
Sum(A, B) == IF B = {} THEN A ELSE Sum((A \cup B) \ (A \cap B), Shift(A \cap B, 1))

\* the exact difference A - B for A >= B: bits set in one operand, minus the
\* borrows
RECURSIVE Difference(_, _)
Difference(A, B) == IF B = {} THEN A ELSE Difference((A \cup B) \ (A \cap B), Shift(B \ A, 1))

\* A < B
Less(A, B) == A # B /\ TopBit((A \ B) \cup (B \ A)) \in B

\* rounding to 53 significant bits, ties to even
RoundToDouble(S) ==
    IF S = {} THEN {}
    ELSE LET lsb == TopBit(S) - 52
             kept == {e \in S : e >= lsb}
             rest == S \ kept
         IN  IF (lsb - 1) \notin rest THEN kept
             ELSE IF rest = {lsb - 1} /\ lsb \notin kept THEN kept
             ELSE Sum(kept, {lsb})

\* a + b
float_add(a, b) == RoundToDouble(Sum(a, b))

\* abs(a - b)
float_abs_diff(a, b) == RoundToDouble(IF Less(a, b) THEN Difference(b, a) ELSE Difference(a, b))

\* n * w for an int n in 0..2, exact
float_times(n, w) == IF n = 0 THEN {} ELSE IF n = 1 THEN w ELSE Shift(w, 1)

\* float literals
Float_0 == {}

Float_0_5 == {-1}

Float_1_5 == {0, -1}

Float_4_25 == {2, -2}

Float_7_5 == {2, 1, 0, -1}

Float_0_15 == {-3, -6, -7, -10, -11, -14, -15, -18, -19, -22, -23, -26, -27, -30, -31, -34, -35, -38, -39, -42, -43, -46, -47, -50, -51, -54, -55}

Float_0_45 == {-2, -3, -4, -7, -8, -11, -12, -15, -16, -19, -20, -23, -24, -27, -28, -31, -32, -35, -36, -39, -40, -43, -44, -47, -48, -51, -52, -54}

Float_1_2 == {0, -3, -4, -7, -8, -11, -12, -15, -16, -19, -20, -23, -24, -27, -28, -31, -32, -35, -36, -39, -40, -43, -44, -47, -48, -51, -52}

Float_2_1 == {1, -4, -5, -8, -9, -12, -13, -16, -17, -20, -21, -24, -25, -28, -29, -32, -33, -36, -37, -40, -41, -44, -45, -48, -49, -51}

\* 2.0 ** 53
Float_2_53 == {53}

\* the default tol of validate_against_bridge, 1e-6
Float_1e_6 == {-20, -25, -26, -30, -31, -33, -34, -35, -36, -38, -39, -40, -41, -43, -49, -51, -52, -54, -56, -57, -58, -59, -61, -62, -64, -65, -69, -70, -72}


\* the bits of a natural number
RECURSIVE Bits(_)
Bits(n) == IF n = 0 THEN {} ELSE (IF n % 2 = 1 THEN {0} ELSE {}) \cup Shift(Bits(n \div 2), 1)

\* the natural number of a set of non-negative bit positions
RECURSIVE Value(_)
Value(S) == IF S = {} THEN 0 ELSE LET e == TopBit(S) IN 2 ^ e + Value(S \ {e})

\* long division: the bits k, k - 1, ..., stop of the quotient R / B, and
\* the remainder
RECURSIVE Divide(_, _, _, _, _)
Divide(R, B, k, stop, quotient) ==
    IF k < stop \/ R = {} THEN [q |-> quotient, r |-> R]
    ELSE LET D == Shift(B, k)
         IN  IF Less(R, D) THEN Divide(R, B, k - 1, stop, quotient)
             ELSE Divide(Difference(R, D), B, k - 1, stop, quotient \cup {k})

\* a / b for b > 0: 56 bits of the quotient, one more bit standing for a
\* remainder, rounded
float_truediv(a, b) ==
    IF a = {} THEN {}
    ELSE LET k == TopBit(a) - TopBit(b)
             d == Divide(a, b, k, k - 55, {})
         IN  RoundToDouble(d.q \cup (IF d.r = {} THEN {} ELSE {k - 57}))

\* float("n.ddd"): the float nearest to thousandths / 1000
Decimal(thousandths) == float_truediv(Bits(thousandths), {9, 8, 7, 6, 5, 3})

\* round(x) and the integer of "%.0f": the nearest integer, a tie going to
\* the even neighbour
float_round(x) ==
    LET whole == {e \in x : e >= 0}
        rest == x \ whole
    IN  IF -1 \notin rest THEN Value(whole)
        ELSE IF rest = {-1} /\ 0 \notin whole THEN Value(whole)
        ELSE Value(whole) + 1

\* x * 1000, exact
Thousandfold(x) == Difference(Shift(x, 10), Sum(Shift(x, 4), Shift(x, 3)))

-----------------------------------------------------------------------------
(* Additional Inputs: the lock of the input dock, the Additional Inputs     *)
(* window and the Layout sub-tab of Typical Section Details                 *)
(* (desktop/ui/docks/input_dock.py, desktop/ui/additional_inputs.py).       *)
(*                                                                          *)
(* The texts of the fields hold integers counting thousandths of a metre,   *)
(* the resolution of the "%.3f" rendering and of the validators: a text is  *)
(* "fixed" when it is the three-decimal rendering of its value and "typed"  *)
(* for any other spelling of the same number ("2.5", "1.50").  The values   *)
(* parsed from them, and everything computed from those, are floats.        *)

\* core/utils/common.py
DEFAULT_GIRDER_SPACING == 2500

DEFAULT_DECK_OVERHANG == 1000

DEFAULT_CRASH_BARRIER_WIDTH == 500

DEFAULT_RAILING_WIDTH == 150

MIN_FOOTPATH_WIDTH == 1500

VALUES_FOOTPATH == <<"None", "Single Sided", "Both">>

\* a float of either sign: the sign and the magnitude
Positive(mag) == [neg |-> FALSE, mag |-> mag]

\* float("n.ddd") of a number of thousandths, the floats of the texts met most
\* often written out
Decimal64(thousandths) ==
    CASE thousandths = 0 -> {}
      [] thousandths = 100 -> {-4, -5, -8, -9, -12, -13, -16, -17, -20, -21, -24, -25, -28, -29, -32, -33, -36, -37, -40, -41, -44, -45, -48, -49, -52, -53, -55}
      [] thousandths = 131 -> {-3, -8, -9, -13, -16, -19, -20, -22, -23, -24, -26, -29, -31, -32, -33, -34, -38, -39, -41, -43, -46, -47, -48, -49, -50, -51, -52}
      [] thousandths = 150 -> {-3, -6, -7, -10, -11, -14, -15, -18, -19, -22, -23, -26, -27, -30, -31, -34, -35, -38, -39, -42, -43, -46, -47, -50, -51, -54, -55}
      [] thousandths = 500 -> {-1}
      [] thousandths = 1000 -> {0}
      [] thousandths = 1300 -> {0, -2, -5, -6, -9, -10, -13, -14, -17, -18, -21, -22, -25, -26, -29, -30, -33, -34, -37, -38, -41, -42, -45, -46, -49, -50, -52}
      [] thousandths = 1500 -> {0, -1}
      [] thousandths = 2000 -> {1}
      [] thousandths = 2450 -> {1, -2, -3, -4, -7, -8, -11, -12, -15, -16, -19, -20, -23, -24, -27, -28, -31, -32, -35, -36, -39, -40, -43, -44, -47, -48, -50}
      [] thousandths = 2500 -> {1, -1}
      [] thousandths = 2624 -> {1, -1, -4, -5, -6, -7, -8, -9, -11, -12, -13, -14, -15, -18, -19, -20, -22, -23, -25, -26, -29, -33, -35, -36, -38, -43, -44, -45, -48, -50, -51}
      [] thousandths = 3000 -> {1, 0}
      [] thousandths = 4250 -> {2, -2}
      [] thousandths = 4512 -> {2, -1, -7, -8, -12, -15, -18, -19, -21, -22, -23, -25, -28, -30, -31, -32, -33, -37, -38, -40, -42, -45, -46, -47, -48, -49, -50}
      [] thousandths = 5000 -> {2, 0}
      [] thousandths = 5250 -> {2, 0, -2}
      [] thousandths = 7500 -> {2, 1, 0, -1}
      [] thousandths = 10000 -> {3, 1}
      [] thousandths = 12000 -> {3, 2}
      [] thousandths = 15000 -> {3, 2, 1, 0}
      [] thousandths = 24000 -> {4, 3}
      [] thousandths = 48000 -> {5, 4}
      [] OTHER -> Decimal(thousandths)

\* the float nearest to a number of thousandths
Number(thousandths) ==
    [neg |-> thousandths < 0, mag |-> Decimal64(IF thousandths < 0 THEN -thousandths ELSE thousandths)]

\* "-0.000", the rendering of a negative number that rounds to zero
MinusZero == [form |-> "minus zero", val |-> 0]

\* float(text) of a field of the tab returns a number
parses(text) == text.form \in {"fixed", "typed", "minus zero"}

\* float(text) of a field of the tab: ok = FALSE stands for ValueError
float64(text) ==
    [ok |-> parses(text),
     val |-> IF text.form = "minus zero" THEN [neg |-> TRUE, mag |-> {}] ELSE Number(text.val)]

\* a + b
float_plus(a, b) ==
    IF a.neg = b.neg THEN [neg |-> a.neg, mag |-> float_add(a.mag, b.mag)]
    ELSE IF a.mag = b.mag THEN Positive({})
    ELSE [neg |-> IF Less(a.mag, b.mag) THEN b.neg ELSE a.neg, mag |-> float_abs_diff(a.mag, b.mag)]

\* a - b
float_minus(a, b) == float_plus(a, [b EXCEPT !.neg = ~b.neg])

\* 2 * a and a * 2, exact
float_twice(a) == [a EXCEPT !.mag = Shift(a.mag, 1)]

\* a / b for b # 0
float_over(a, b) == [neg |-> a.neg # b.neg, mag |-> float_truediv(a.mag, b.mag)]

\* a < b
float_less(a, b) ==
    IF a.mag = {} /\ b.mag = {} THEN FALSE
    ELSE IF a.neg # b.neg THEN a.neg
    ELSE IF a.neg THEN Less(b.mag, a.mag) ELSE Less(a.mag, b.mag)

\* int(round(x))
int_round(x) == IF x.neg THEN -float_round(x.mag) ELSE float_round(x.mag)

\* f"{x:.3f}": the nearest number of thousandths, a tie of the float's exact
\* value going to the even neighbour
format_3f(x) ==
    LET thousandths == float_round(Thousandfold(x.mag))
    IN  IF ~x.neg THEN Fixed(thousandths)
        ELSE IF thousandths = 0 THEN MinusZero ELSE Fixed(-thousandths)

\* f"{num / den:.3f}" for a float num and an int den > 0
Format3(num, den) == format_3f(float_over(num, Positive(Bits(den))))

\* int(text) of a field of digits: ok = FALSE stands for ValueError
int_text(text) == [ok |-> text.form \in {"fixed", "typed"}, val |-> text.val]

\* float(text) if text else default; the defaults count thousandths
float_or(text, default) == float64(IF NonEmpty(text) THEN text ELSE Typed(default))

\* InputDock._get_effective_carriageway_width(), in thousandths (the limits
\* and the text of the carriageway field count hundredths)
_get_effective_carriageway_width(field_text, median_text) ==
    LET limits == _carriageway_limits(median_text)
        width == IF NonEmpty(field_text) /\ float(field_text).ok
                 THEN float(field_text).val
                 ELSE limits.min_width
        clamped == Max(limits.min_width, Min(width, limits.max_width))
    IN  IF _is_median_included(median_text) THEN 10 * clamped * 2 ELSE 10 * clamped

\* lines 758 to 775 on the numbers read: the carriageway width, plus the
\* footpath width times the number of footpaths, plus twice the crash-barrier
\* width, plus twice the railing width, added in this order; the footpath and
\* railing terms only with a footpath.  raised stands for an exception inside
\* the try block, which the bare except answers with the carriageway width.
overall_width_of(raised, footpath_value, carriageway_width, footpath_width, crash_width, railing_width) ==
    IF raised THEN carriageway_width
    ELSE IF footpath_value = "None"
    THEN float_plus(carriageway_width, float_twice(crash_width))
    ELSE float_plus(
             float_plus(
                 float_plus(carriageway_width,
                            IF footpath_value = "Both" THEN float_twice(footpath_width) ELSE footpath_width),
                 float_twice(crash_width)),
             float_twice(railing_width))

\* TypicalSectionDetailsTab.get_overall_bridge_width(), a float.  A field
\* that does not parse, or the crash-barrier field not being created yet
\* (None), raises.  An empty footpath width counts 0; the railing field holds
\* millimetres and is divided by 1000.0; the carriageway width is the float
\* the dock passed, the nearest to its number of thousandths.
get_overall_bridge_width(self) ==
    LET with_footpath == self.footpath_value # "None"
        railing_text == IF self.railing_width = None THEN Blank ELSE self.railing_width
    IN  overall_width_of(
            \/ with_footpath /\ NonEmpty(self.footpath_width) /\ ~parses(self.footpath_width)
            \/ self.crash_barrier_width = None
            \/ NonEmpty(self.crash_barrier_width) /\ ~parses(self.crash_barrier_width)
            \/ with_footpath /\ NonEmpty(railing_text) /\ ~parses(railing_text),
            self.footpath_value,
            Number(self.carriageway_width),
            float_or(self.footpath_width, 0).val,
            float_or(self.crash_barrier_width, DEFAULT_CRASH_BARRIER_WIDTH).val,
            float_or(railing_text, DEFAULT_RAILING_WIDTH).val)

\* lines 780 to 785 with the width line 782 gets: the display shows it with
\* three decimals
_update_overall_bridge_width_display(self, overall_width) ==
    [self EXCEPT !.overall_bridge_width_display = format_3f(overall_width)]

\* self.updating_fields = value
set_updating_fields_skipped(self, value) == self

set_updating_fields(self, value) == [self EXCEPT !.updating_fields = value]

\* the girder count of recalculate_girders (line 799)
no_girders_without_end_girder(overall_width, overhang, spacing) ==
    int_round(float_over(float_minus(overall_width, float_twice(overhang)), spacing))

no_girders_for(overall_width, overhang, spacing) ==
    int_round(float_over(float_minus(overall_width, float_twice(overhang)), spacing)) + 1

\* the test of on_girder_spacing_changed and on_deck_overhang_changed that
\* rejects the edit (lines 814, 828)
exceeds_strictly(value, overall_width) == float_less(overall_width, value)

exceeds(value, overall_width) == ~float_less(value, overall_width)

\* QMessageBox.warning(self, title, ...)
warning(self, title) == [self EXCEPT !.warning = title]

\* the greatest length of a chain of nested signal handlers that is followed
MaxDepth == 6

LayoutFields == {"girder_spacing", "no_of_girders", "deck_overhang",
                 "footpath_width", "crash_barrier_width", "railing_width"}

RECURSIVE setText(_, _, _, _)
RECURSIVE textChanged(_, _, _)
RECURSIVE recalculate_girders(_, _)
RECURSIVE recalculate_shown(_, _, _)
RECURSIVE recalculate_for(_, _, _, _, _)
RECURSIVE back_solve(_, _, _, _, _)
RECURSIVE write_no_of_girders(_, _, _)
RECURSIVE on_girder_spacing_changed(_, _)
RECURSIVE on_deck_overhang_changed(_, _)
RECURSIVE on_no_of_girders_changed(_, _)
RECURSIVE on_footpath_width_changed(_, _)

\* QLineEdit.setText(text) of a field of the tab: the call is recorded, and
\* textChanged is emitted when the text differs from the one held
setText(self, field, text, depth) ==
    LET written == [self EXCEPT ![field] = text, !.writes = Append(self.writes, field)]
    IN  IF self[field] = text THEN written ELSE textChanged(written, field, depth)

\* the slots connected to textChanged of each field (lines 385, 390, 401, 433,
\* 481, 580), run synchronously
textChanged(self, field, depth) ==
    IF depth = 0 THEN [self EXCEPT !.overrun = TRUE]
    ELSE CASE field = "girder_spacing" -> on_girder_spacing_changed(self, depth - 1)
           [] field = "no_of_girders" -> on_no_of_girders_changed(self, depth - 1)
           [] field = "deck_overhang" -> on_deck_overhang_changed(self, depth - 1)
           [] field = "footpath_width" -> on_footpath_width_changed(self, depth - 1)
           [] field \in {"crash_barrier_width", "railing_width"} -> recalculate_girders(self, depth - 1)

\* get_overall_bridge_width() returns the same number at lines 782 and 792
recalculate_girders(self, depth) ==
    IF self.updating_fields THEN self
    ELSE recalculate_shown(self, get_overall_bridge_width(self), depth)

\* lines 791 to 805
recalculate_shown(self, overall_width, depth) ==
    recalculate_for(_update_overall_bridge_width_display(self, overall_width), overall_width,
                    float_or(self.girder_spacing, DEFAULT_GIRDER_SPACING),
                    float_or(self.deck_overhang, DEFAULT_DECK_OVERHANG),
                    depth)

\* lines 795 to 805 with the numbers of lines 792 to 794; a text that does
\* not parse ends the method in its except clause
recalculate_for(self, overall_width, spacing, overhang, depth) ==
    IF ~spacing.ok \/ ~overhang.ok THEN self
    ELSE IF ~float_less(spacing.val, overall_width) \/ ~float_less(overhang.val, overall_width)
    THEN setText(self, "no_of_girders", Blank, depth)
    ELSE IF float_less(Positive({}), spacing.val)
    THEN write_no_of_girders(self, no_girders_for(overall_width, overhang.val, spacing.val), depth)
    ELSE self

\* lines 800 to 803, with the count of line 799
write_no_of_girders(self, no_girders, depth) ==
    IF no_girders >= 2
    THEN set_updating_fields(
             setText(set_updating_fields(self, TRUE), "no_of_girders", Fixed(no_girders), depth),
             FALSE)
    ELSE self

on_girder_spacing_changed(self, depth) ==
    IF self.updating_fields THEN self
    ELSE IF NonEmpty(self.girder_spacing) /\ ~parses(self.girder_spacing) THEN self
    ELSE IF /\ NonEmpty(self.girder_spacing)
            /\ exceeds(float64(self.girder_spacing).val, get_overall_bridge_width(self))
    THEN warning(self, "Invalid Girder Spacing")
    ELSE recalculate_girders(self, depth)

on_deck_overhang_changed(self, depth) ==
    IF self.updating_fields THEN self
    ELSE IF NonEmpty(self.deck_overhang) /\ ~parses(self.deck_overhang) THEN self
    ELSE IF /\ NonEmpty(self.deck_overhang)
            /\ exceeds(float64(self.deck_overhang).val, get_overall_bridge_width(self))
    THEN warning(self, "Invalid Deck Overhang")
    ELSE recalculate_girders(self, depth)

\* lines 849 to 853: the spacing for a count, written with three decimals
back_solve(self, overall_width, overhang, no_girders, depth) ==
    set_updating_fields(
        setText(set_updating_fields(self, TRUE), "girder_spacing",
                Format3(float_minus(overall_width, float_twice(overhang)), no_girders - 1),
                depth),
        FALSE)

on_no_of_girders_changed(self, depth) ==
    IF self.updating_fields THEN self
    ELSE IF ~NonEmpty(self.no_of_girders) \/ ~int_text(self.no_of_girders).ok THEN self
    ELSE IF int_text(self.no_of_girders).val < 2
    THEN warning(self, "Invalid Number of Girders")
    ELSE IF NonEmpty(self.deck_overhang) /\ ~parses(self.deck_overhang) THEN self
    ELSE back_solve(self, get_overall_bridge_width(self),
                    float_or(self.deck_overhang, DEFAULT_DECK_OVERHANG).val,
                    int_text(self.no_of_girders).val, depth)

on_footpath_width_changed(self, depth) ==
    IF self.updating_fields THEN self ELSE recalculate_girders(self, depth)

\* TypicalSectionDetailsTab.update_footpath_value(footpath_value)
update_footpath_value(self, footpath_value) ==
    recalculate_girders([self EXCEPT !.footpath_value = footpath_value,
                                     !.footpath_width_enabled = (footpath_value # "None")],
                        MaxDepth)

\* what a handler chain leaves behind is cleared when the next one starts
Untraced(self) == [self EXCEPT !.writes = <<>>, !.warning = "", !.overrun = FALSE]

\* AdditionalInputs(footpath_value, carriageway_width) with its
\* TypicalSectionDetailsTab: init_ui creates the Layout fields, where setting
\* the footpath width already runs recalculate_girders() (the crash-barrier
\* and railing fields do not exist yet), then the other sub-tabs, and ends
\* with recalculate_girders()
AdditionalInputs(footpath_value, carriageway_width) ==
    LET created == [enabled |-> TRUE,
                    footpath_value |-> footpath_value,
                    carriageway_width |-> carriageway_width,
                    updating_fields |-> FALSE,
                    girder_spacing |-> Typed(DEFAULT_GIRDER_SPACING),
                    no_of_girders |-> Blank,
                    deck_overhang |-> Typed(DEFAULT_DECK_OVERHANG),
                    overall_bridge_width_display |-> Blank,
                    footpath_width |-> Blank,
                    footpath_width_enabled |-> TRUE,
                    crash_barrier_width |-> None,
                    railing_width |-> None,
                    writes |-> <<>>, warning |-> "", overrun |-> FALSE]
    IN  recalculate_girders(
            [setText(created, "footpath_width", Typed(MIN_FOOTPATH_WIDTH), MaxDepth)
                 EXCEPT !.crash_barrier_width = Typed(DEFAULT_CRASH_BARRIER_WIDTH),
                        !.railing_width = Typed(DEFAULT_RAILING_WIDTH)],
            MaxDepth)

\* InputDock._set_additional_inputs_enabled(enabled)
_set_additional_inputs_enabled(widget, enabled) ==
    IF widget = None THEN widget ELSE [widget EXCEPT !.enabled = enabled]

-----------------------------------------------------------------------------
(* The user at the dock and at the Additional Inputs window                 *)

\* number of edits of Additional Inputs fields that are followed
MaxLayoutEdits == 2

\* what the user types: every text below passes the validator of its field
\* as Acceptable or Intermediate, so the line edit takes it and emits
\* textChanged
GirderSpacingTexts == {Blank, Junk, Typed(0), Typed(100), Typed(1300), Typed(4512), Typed(5250)}

DeckOverhangTexts == {Blank, Junk, Typed(0), Typed(2450), Typed(2624), Typed(3000), Typed(10000)}

NoOfGirdersTexts == {Blank, Fixed(1), Fixed(2), Fixed(4), Fixed(21), Fixed(100)}

FootpathWidthTexts == {Blank, Junk, Typed(2000)}

CrashBarrierWidthTexts == {Blank, Junk, Typed(131)}

RailingWidthTexts == {Blank, Junk, Typed(1000)}

LayoutTexts(field) ==
    CASE field = "girder_spacing" -> GirderSpacingTexts
      [] field = "no_of_girders" -> NoOfGirdersTexts
      [] field = "deck_overhang" -> DeckOverhangTexts
      [] field = "footpath_width" -> FootpathWidthTexts
      [] field = "crash_barrier_width" -> CrashBarrierWidthTexts
      [] field = "railing_width" -> RailingWidthTexts

NoLayoutEvent == [handler |-> "none", field |-> "", before |-> None]

AdditionalInit ==
    /\ is_locked = FALSE
    /\ scroll_area = TRUE
    /\ footpath_combo = VALUES_FOOTPATH[1]
    /\ additional_inputs_window = "None"
    /\ additional_inputs_widget = None
    /\ layout_event = NoLayoutEvent
    /\ layout_edits = 0

AdditionalOthers == UNCHANGED <<geoVars, dockVars, matVars, locVars, cliVars, moreVars>>

\* the lock button of the top bar: toggle_lock
ToggleLock ==
    /\ is_locked' = ~is_locked
    /\ scroll_area' = is_locked
    /\ layout_event' = [handler |-> "toggle_lock", field |-> "", before |-> additional_inputs_widget]
    /\ UNCHANGED <<footpath_combo, additional_inputs_window, additional_inputs_widget, layout_edits>>
    /\ AdditionalOthers

\* the Additional Inputs button of the top bar: show_additional_inputs
ShowAdditionalInputs ==
    /\ additional_inputs_window' = "visible"
    /\ additional_inputs_widget' =
           IF additional_inputs_window # "visible"
           THEN _set_additional_inputs_enabled(
                    AdditionalInputs(footpath_combo,
                        _get_effective_carriageway_width(carriageway_input.text, include_median_combo)),
                    ~is_locked)
           ELSE _set_additional_inputs_enabled(additional_inputs_widget, ~is_locked)
    /\ layout_event' = [handler |-> "show_additional_inputs", field |-> "", before |-> additional_inputs_widget]
    /\ UNCHANGED <<is_locked, scroll_area, footpath_combo, layout_edits>>
    /\ AdditionalOthers

\* the user closes the window: the dialog is hidden, and the dock keeps both
\* references
CloseAdditionalInputs ==
    /\ additional_inputs_window = "visible"
    /\ additional_inputs_window' = "hidden"
    /\ layout_event' = [handler |-> "close", field |-> "", before |-> additional_inputs_widget]
    /\ UNCHANGED <<is_locked, scroll_area, footpath_combo, additional_inputs_widget, layout_edits>>
    /\ AdditionalOthers

\* the user picks another item of the Footpath selector of the dock (inside
\* the scroll area): on_footpath_changed
FootpathChanged(value) ==
    /\ scroll_area
    /\ value # footpath_combo
    /\ footpath_combo' = value
    /\ additional_inputs_widget' =
           IF additional_inputs_window = "visible"
           THEN update_footpath_value(Untraced(additional_inputs_widget), value)
           ELSE additional_inputs_widget
    /\ layout_event' = [handler |-> "on_footpath_changed", field |-> "", before |-> additional_inputs_widget]
    /\ UNCHANGED <<is_locked, scroll_area, additional_inputs_window, layout_edits>>
    /\ AdditionalOthers

\* the user changes the text of a field of the open, enabled window; the slot
\* connected to textChanged runs with everything it triggers
EditLayoutField(field, text) ==
    /\ additional_inputs_window = "visible"
    /\ additional_inputs_widget.enabled
    /\ field = "footpath_width" => additional_inputs_widget.footpath_width_enabled
    /\ layout_edits < MaxLayoutEdits
    /\ text # additional_inputs_widget[field]
    /\ additional_inputs_widget' =
           textChanged([Untraced(additional_inputs_widget) EXCEPT ![field] = text], field, MaxDepth)
    /\ layout_event' = [handler |-> "textChanged", field |-> field, before |-> additional_inputs_widget]
    /\ layout_edits' = layout_edits + 1
    /\ UNCHANGED <<is_locked, scroll_area, footpath_combo, additional_inputs_window>>
    /\ AdditionalOthers

NextAdditional ==
    \/ ToggleLock
    \/ ShowAdditionalInputs
    \/ CloseAdditionalInputs
    \/ \E value \in Items(VALUES_FOOTPATH) : FootpathChanged(value)

\* the user at the Layout sub-tab of the open window
NextLayout ==
    \/ ShowAdditionalInputs
    \/ \E value \in Items(VALUES_FOOTPATH) : FootpathChanged(value)
    \/ \E field \in LayoutFields : \E text \in LayoutTexts(field) : EditLayoutField(field, text)

-----------------------------------------------------------------------------
(* Lock state of the dock and the Additional Inputs window                  *)

\* C11: the scroll area of the dock is enabled exactly while the dock is
\* unlocked, and every existing Additional Inputs widget is enabled exactly
\* while the dock is unlocked
C11_LockGovernsAdditionalInputs ==
    /\ scroll_area = ~is_locked
    /\ additional_inputs_widget # None => additional_inputs_widget.enabled = ~is_locked

-----------------------------------------------------------------------------
(* Girder count and girder spacing of the Layout sub-tab                    *)

\* the last step was a user edit of the given field of the tab
Edited(field) == layout_event.handler = "textChanged" /\ layout_event.field = field

\* the tab as the last handler chain left it, and as it found it
Tab == additional_inputs_widget

TabBefore == layout_event.before

OverallWidth == get_overall_bridge_width(Tab)

SpacingOrDefault == float_or(Tab.girder_spacing, DEFAULT_GIRDER_SPACING)

OverhangOrDefault == float_or(Tab.deck_overhang, DEFAULT_DECK_OVERHANG)

\* the user edited the number of girders and the back-solve wrote a spacing
BackSolved == Edited("no_of_girders") /\ Tab.writes = <<"girder_spacing">>

\* C12: when a girder count n >= 2 is back-solved to a spacing with
\* W - 2h > 0, the forward formula round((W - 2h) / s) + 1 applied to the
\* spacing s that was written gives n again
C12_BackSolveRoundTrip ==
    (BackSolved /\ float_less(float_twice(OverhangOrDefault.val), OverallWidth) /\ Tab.no_of_girders.val >= 2)
    => /\ float_less(Positive({}), float64(Tab.girder_spacing).val)
       /\ no_girders_for(OverallWidth, OverhangOrDefault.val, float64(Tab.girder_spacing).val)
              = Tab.no_of_girders.val

LinkedFields == {"girder_spacing", "deck_overhang", "no_of_girders"}

Counterpart(field) == IF field = "no_of_girders" THEN "girder_spacing" ELSE "no_of_girders"

\* C13: the handler chain of one user edit of spacing, overhang or count ends
\* after at most one programmatic write, which goes to the counterpart field
\* and never to the edited one, and updating_fields is false whenever no
\* handler is running
C13_SingleGuardedUpdate ==
    /\ Tab # None => ~Tab.updating_fields
    /\ \A field \in LinkedFields :
           Edited(field) =>
               /\ ~Tab.overrun
               /\ Len(Tab.writes) <= 1
               /\ \A i \in DOMAIN Tab.writes : Tab.writes[i] = Counterpart(field)

\* an edit of the spacing recomputed the girder count, the guard having kept
\* on_no_of_girders_changed from answering
C13_Witness ==
    /\ Edited("girder_spacing")
    /\ Tab.writes = <<"no_of_girders">>
    /\ Tab.no_of_girders # TabBefore.no_of_girders
    /\ Tab.no_of_girders # Blank
    /\ ~Tab.updating_fields

\* a width field read as the claim says: its value, or the default when the
\* field is empty or does not parse
WidthOrDefault(text, default) ==
    IF NonEmpty(text) /\ float64(text).ok THEN float64(text).val ELSE Number(default)

FootpathCount(footpath_value) ==
    IF footpath_value = "Both" THEN 2 ELSE IF footpath_value = "Single Sided" THEN 1 ELSE 0

\* C16: the overall bridge width is carriageway + footpath width x count
\* + 2 x crash-barrier width + 2 x railing width (with a footpath only), each
\* of the three widths replaced by its default when its field is empty or
\* unparseable
C16_OverallWidthWithDefaults ==
    Tab # None =>
        OverallWidth =
            float_plus(
                float_plus(
                    float_plus(Number(Tab.carriageway_width),
                               Positive(float_times(FootpathCount(Tab.footpath_value),
                                                    WidthOrDefault(Tab.footpath_width, MIN_FOOTPATH_WIDTH).mag))),
                    float_twice(WidthOrDefault(Tab.crash_barrier_width, DEFAULT_CRASH_BARRIER_WIDTH))),
                IF FootpathCount(Tab.footpath_value) > 0
                THEN float_twice(WidthOrDefault(Tab.railing_width, DEFAULT_RAILING_WIDTH))
                ELSE Positive({}))

\* the last step ran recalculate_girders() to its end on parsed values
Recalculated ==
    /\ \/ \E field \in LayoutFields \ {"no_of_girders"} : Edited(field)
       \/ layout_event.handler = "on_footpath_changed" /\ additional_inputs_window = "visible"
    /\ Tab.warning = ""
    /\ SpacingOrDefault.ok
    /\ OverhangOrDefault.ok

\* round((W - 2h) / s) + 1 in Python's float arithmetic
RoundedCount ==
    int_round(float_over(float_minus(OverallWidth, float_twice(OverhangOrDefault.val)), SpacingOrDefault.val)) + 1

\* C17: after a recalculation with spacing s, overhang h and overall width W
\* the girder-count field is empty if s >= W or h >= W; else it holds
\* n = round((W - 2h) / s) + 1 if s > 0 and n >= 2; otherwise it is as it
\* was; every value written is an integer of at least 2
C17_RecalculatedCount ==
    Recalculated =>
        /\ IF ~float_less(SpacingOrDefault.val, OverallWidth) \/ ~float_less(OverhangOrDefault.val, OverallWidth)
           THEN Tab.no_of_girders = Blank
           ELSE IF float_less(Positive({}), SpacingOrDefault.val) /\ RoundedCount >= 2
           THEN Tab.no_of_girders = Fixed(RoundedCount)
           ELSE Tab.no_of_girders = TabBefore.no_of_girders
        /\ (Tab.writes # <<>> /\ Tab.no_of_girders # Blank)
               => Tab.no_of_girders.form = "fixed" /\ Tab.no_of_girders.val >= 2

\* the count follows the binary64 quotient: with the overall width 5.25 and
\* the overhang 2.45, a spacing of 0.1 gives (5.25 - 4.9) / 0.1 =
\* 3.4999999999999964, which rounds to 3, and the field holds 4
C17_Witness ==
    /\ Recalculated
    /\ Edited("girder_spacing")
    /\ Tab.girder_spacing = Typed(100)
    /\ Tab.deck_overhang = Typed(2450)
    /\ OverallWidth = Number(5250)
    /\ Tab.writes = <<"no_of_girders">>
    /\ Tab.no_of_girders = Fixed(4)

\* the footpath was switched to Both with the window open: the count follows
\* the wider deck
C17_FootpathWitness ==
    /\ Recalculated
    /\ layout_event.handler = "on_footpath_changed"
    /\ Tab.writes = <<"no_of_girders">>
    /\ Tab.no_of_girders # TabBefore.no_of_girders
    /\ Tab.no_of_girders.val >= 3

\* a recalculation that cleared the count, and one that left it alone
C17_ClearedWitness ==
    /\ Recalculated
    /\ ~float_less(OverhangOrDefault.val, OverallWidth)
    /\ TabBefore.no_of_girders # Blank
    /\ Tab.no_of_girders = Blank

\* C18: a spacing written by the back-solve after a user edit of the number
\* of girders is strictly positive and strictly less than the overall width
C18_BackSolvedSpacingInRange ==
    BackSolved => /\ float_less(Positive({}), float64(Tab.girder_spacing).val)
                  /\ float_less(float64(Tab.girder_spacing).val, OverallWidth)

\* every field of the tab but the given one is as the handler found it
OthersKept(field) ==
    \A other \in (LayoutFields \cup {"overall_bridge_width_display"}) \ {field} :
        Tab[other] = TabBefore[other]

\* C19: a rejected edit changes no other field: a spacing or an overhang of
\* at least the overall width is answered by a warning and the girder count
\* keeps its value; a girder count below 2 is answered by a warning and the
\* spacing keeps its value
C19_RejectedEditChangesNothing ==
    /\ (Edited("girder_spacing") /\ float64(Tab.girder_spacing).ok
            /\ ~float_less(float64(Tab.girder_spacing).val, OverallWidth))
           => Tab.warning = "Invalid Girder Spacing" /\ OthersKept("girder_spacing")
    /\ (Edited("deck_overhang") /\ float64(Tab.deck_overhang).ok
            /\ ~float_less(float64(Tab.deck_overhang).val, OverallWidth))
           => Tab.warning = "Invalid Deck Overhang" /\ OthersKept("deck_overhang")
    /\ (Edited("no_of_girders") /\ int_text(Tab.no_of_girders).ok
            /\ Tab.no_of_girders.val < 2)
           => Tab.warning = "Invalid Number of Girders" /\ OthersKept("no_of_girders")

\* a spacing equal to the overall width was typed while a count was shown
C19_Witness ==
    /\ Edited("girder_spacing")
    /\ float64(Tab.girder_spacing).val = OverallWidth
    /\ Tab.warning = "Invalid Girder Spacing"
    /\ Tab.no_of_girders = TabBefore.no_of_girders
    /\ Tab.no_of_girders # Blank

\* the width is the float sum: with a crash-barrier width of 0.131 it is
\* 4.25 + 0.262 = 4.5120000000000005, so that a spacing of 4.512 is below it
\* and is accepted
C19_AcceptedBelowFloatWidth ==
    /\ Edited("girder_spacing")
    /\ Tab.girder_spacing = Typed(4512)
    /\ Tab.crash_barrier_width = Typed(131)
    /\ Tab.footpath_value = "None"
    /\ float_less(Number(4512), OverallWidth)
    /\ Tab.warning = ""

-----------------------------------------------------------------------------
(* Project Location dialog (desktop/ui/dialogs/project_location.py)         *)

\* the keys of ProjectLocationDialog.STATE_DISTRICTS in their order, and the
\* districts of each
STATE_NAMES == <<"Select State", "Delhi", "Maharashtra", "Karnataka", "Tamil Nadu", "West Bengal">>

STATE_DISTRICTS ==
    ("Select State" :> <<"Select District">>)
    @@ ("Delhi" :> <<"Central Delhi", "East Delhi", "New Delhi", "North Delhi", "North East Delhi", "North West Delhi", "South Delhi", "South East Delhi", "South West Delhi", "West Delhi">>)
    @@ ("Maharashtra" :> <<"Mumbai", "Pune", "Nagpur", "Thane", "Nashik", "Aurangabad", "Solapur", "Amravati", "Kolhapur", "Raigad", "Satara", "Sangli">>)
    @@ ("Karnataka" :> <<"Bangalore", "Mysore", "Hubli", "Belgaum", "Mangalore", "Gulbarga", "Bellary", "Bijapur", "Shimoga", "Tumkur", "Davangere">>)
    @@ ("Tamil Nadu" :> <<"Chennai", "Coimbatore", "Madurai", "Tiruchirappalli", "Salem", "Tirunelveli", "Tiruppur", "Erode", "Vellore", "Thoothukudi", "Dindigul">>)
    @@ ("West Bengal" :> <<"Kolkata", "Howrah", "Darjeeling", "Siliguri", "Asansol", "Durgapur", "Bardhaman", "Malda", "Jalpaiguri", "Murshidabad", "Nadia">>)

\* Python's None as the method of a result
NoMethod == "None"

\* the empty dict
EmptyData == [key \in {} |-> ""]

\* get_selected_location() with the location-name box tested before the
\* coordinates box
get_selected_location_name_first(self) ==
    [method |-> IF self.location_checkbox THEN "location_name"
                ELSE IF self.coords_checkbox THEN "coordinates"
                ELSE IF self.map_checkbox THEN "map" ELSE NoMethod,
     data |-> IF self.location_checkbox
              THEN [state |-> self.state_combo, district |-> self.district_combo]
              ELSE IF self.coords_checkbox
              THEN [latitude |-> self.latitude_input, longitude |-> self.longitude_input]
              ELSE EmptyData,
     custom_params |-> self.custom_params_checkbox]

get_selected_location(self) ==
    [method |-> IF self.coords_checkbox THEN "coordinates"
                ELSE IF self.location_checkbox THEN "location_name"
                ELSE IF self.map_checkbox THEN "map" ELSE NoMethod,
     data |-> IF self.coords_checkbox
              THEN [latitude |-> self.latitude_input, longitude |-> self.longitude_input]
              ELSE IF self.location_checkbox
              THEN [state |-> self.state_combo, district |-> self.district_combo]
              ELSE EmptyData,
     custom_params |-> self.custom_params_checkbox]

\* ProjectLocationDialog(): every box unchecked, the fields empty, the first
\* state selected and the district selector holding its single entry
ProjectLocationDialog ==
    [open |-> TRUE,
     coords_checkbox |-> FALSE, location_checkbox |-> FALSE,
     map_checkbox |-> FALSE, custom_params_checkbox |-> FALSE,
     latitude_input |-> "", longitude_input |-> "",
     state_combo |-> STATE_NAMES[1], district_combo |-> "Select District"]

\* _on_state_changed(state_name): the district selector is refilled and shows
\* the first district of the state
_on_state_changed(self, state_name) ==
    [self EXCEPT !.state_combo = state_name,
                 !.district_combo = STATE_DISTRICTS[state_name][1]]

NoLocationResult == [call |-> "none"]

LocationInit ==
    /\ location_dialog = [ProjectLocationDialog EXCEPT !.open = FALSE]
    /\ location_result = NoLocationResult

LocationOthers == UNCHANGED <<geoVars, dockVars, matVars, addVars, cliVars, moreVars>>

\* what the user types into the latitude and longitude fields (free text)
CoordinateTexts == {"", "28.61", "north"}

CheckBoxes == {"coords_checkbox", "location_checkbox", "map_checkbox", "custom_params_checkbox"}

\* the Add Here button: show_project_location_dialog creates the dialog and
\* runs it modally; the result of an earlier call was local to that call
ShowProjectLocationDialog ==
    /\ ~location_dialog.open
    /\ location_dialog' = ProjectLocationDialog
    /\ location_result' = NoLocationResult
    /\ LocationOthers

\* the user checks or unchecks a box
ToggleCheckBox(box) ==
    /\ location_dialog.open
    /\ location_dialog' = [location_dialog EXCEPT ![box] = ~location_dialog[box]]
    /\ UNCHANGED location_result
    /\ LocationOthers

\* the coordinate fields are enabled while their box is checked
TypeCoordinate(field, text) ==
    /\ location_dialog.open
    /\ location_dialog.coords_checkbox
    /\ text # location_dialog[field]
    /\ location_dialog' = [location_dialog EXCEPT ![field] = text]
    /\ UNCHANGED location_result
    /\ LocationOthers

\* the selectors are enabled while the location box is checked
SelectState(state_name) ==
    /\ location_dialog.open
    /\ location_dialog.location_checkbox
    /\ state_name # location_dialog.state_combo
    /\ location_dialog' = _on_state_changed(location_dialog, state_name)
    /\ UNCHANGED location_result
    /\ LocationOthers

SelectDistrict(district) ==
    /\ location_dialog.open
    /\ location_dialog.location_checkbox
    /\ district \in Items(STATE_DISTRICTS[location_dialog.state_combo])
    /\ district # location_dialog.district_combo
    /\ location_dialog' = [location_dialog EXCEPT !.district_combo = district]
    /\ UNCHANGED location_result
    /\ LocationOthers

\* OK: the dialog is accepted and the dock asks get_selected_location()
AcceptLocation ==
    /\ location_dialog.open
    /\ location_result' = [call |-> "get_selected_location",
                           dialog |-> location_dialog,
                           returned |-> get_selected_location(location_dialog)]
    /\ location_dialog' = [location_dialog EXCEPT !.open = FALSE]
    /\ LocationOthers

\* Cancel: nothing is asked
RejectLocation ==
    /\ location_dialog.open
    /\ location_dialog' = [location_dialog EXCEPT !.open = FALSE]
    /\ UNCHANGED location_result
    /\ LocationOthers

NextLocation ==
    \/ ShowProjectLocationDialog
    \/ \E box \in CheckBoxes : ToggleCheckBox(box)
    \/ \E field \in {"latitude_input", "longitude_input"} : \E text \in CoordinateTexts :
           TypeCoordinate(field, text)
    \/ \E state_name \in Items(STATE_NAMES) : SelectState(state_name)
    \/ \E district \in UNION {Items(STATE_DISTRICTS[s]) : s \in Items(STATE_NAMES)} :
           SelectDistrict(district)
    \/ AcceptLocation
    \/ RejectLocation

Asked == location_result.call = "get_selected_location"

\* C14: get_selected_location() reports the first checked method in the order
\* coordinates, location name, map, and None with empty data when no box is
\* checked; data holds exactly the keys of the reported method, with the
\* texts of the dialog; custom_params is the state of the custom-parameters
\* box
C14_SelectedLocationPrecedence ==
    Asked =>
        LET self == location_result.dialog
            returned == location_result.returned
        IN  /\ self.coords_checkbox => returned.method = "coordinates"
            /\ (~self.coords_checkbox /\ self.location_checkbox)
                   => returned.method = "location_name"
            /\ (~self.coords_checkbox /\ ~self.location_checkbox /\ self.map_checkbox)
                   => returned.method = "map"
            /\ (~self.coords_checkbox /\ ~self.location_checkbox /\ ~self.map_checkbox)
                   => returned.method = NoMethod /\ DOMAIN returned.data = {}
            /\ returned.method = "coordinates"
                   => /\ DOMAIN returned.data = {"latitude", "longitude"}
                      /\ returned.data["latitude"] = self.latitude_input
                      /\ returned.data["longitude"] = self.longitude_input
            /\ returned.method = "location_name"
                   => /\ DOMAIN returned.data = {"state", "district"}
                      /\ returned.data["state"] = self.state_combo
                      /\ returned.data["district"] = self.district_combo
            /\ returned.method = "map" => DOMAIN returned.data = {}
            /\ returned.custom_params = self.custom_params_checkbox

\* all three boxes were checked, coordinates typed and a district picked: the
\* coordinates are reported
C14_Witness ==
    /\ Asked
    /\ location_result.dialog.coords_checkbox
    /\ location_result.dialog.location_checkbox
    /\ location_result.dialog.map_checkbox
    /\ location_result.dialog.state_combo = "Delhi"
    /\ location_result.dialog.latitude_input = "28.61"
    /\ location_result.returned.method = "coordinates"
    /\ location_result.returned.data["latitude"] = "28.61"
    /\ location_result.returned.custom_params

-----------------------------------------------------------------------------
(* Command line (cli/main.py): osdagbridge validate MODEL                   *)

\* names and contents of the files of the working directory; Absent: no
\* such file
FileNames == {"some_file.json", "bridge.json", "notes.txt"}

Absent == "<absent>"

FileContents == {Absent, "{\"spans\": [30.0]}", "not json"}

\* the MODEL arguments tried: an existing or missing file, a directory, the
\* empty string
ModelArguments == FileNames \cup {"missing.json", ".", ""}

NoCommand == [command |-> "none", model |-> "", stdout |-> <<>>, exit_code |-> 0, opened |-> {}]

\* validate(model) with a test of the file's existence added
validate_existing_only(model, directory) ==
    IF model \in DOMAIN directory /\ directory[model] # Absent
    THEN [command |-> "validate", model |-> model,
          stdout |-> <<"Validating model: " \o model>>, exit_code |-> 0, opened |-> {model}]
    ELSE [command |-> "validate", model |-> model,
          stdout |-> <<>>, exit_code |-> 2, opened |-> {}]

\* validate(model): one line is printed and the command returns, so that
\* click exits with status 0; no file is opened
validate(model, directory) ==
    [command |-> "validate", model |-> model,
     stdout |-> <<"Validating model: " \o model>>, exit_code |-> 0, opened |-> {}]

CliInit ==
    /\ files = [name \in FileNames |-> Absent]
    /\ cli = NoCommand

CliOthers == UNCHANGED <<geoVars, dockVars, matVars, addVars, locVars, moreVars>>

\* somebody writes or removes a file of the working directory
WriteFile(name, content) ==
    /\ files[name] # content
    /\ files' = [files EXCEPT ![name] = content]
    /\ UNCHANGED cli
    /\ CliOthers

\* osdagbridge validate MODEL
Validate(model) ==
    /\ cli' = validate(model, files)
    /\ UNCHANGED files
    /\ CliOthers

NextCli ==
    \/ \E name \in FileNames : \E content \in FileContents : WriteFile(name, content)
    \/ \E model \in ModelArguments : Validate(model)

\* C15: validate MODEL prints exactly the line "Validating model: " followed
\* by MODEL and exits with status 0 whatever the argument is and whether or
\* not the file exists, without reading or changing any file
C15_ValidateIsAStub ==
    [][cli' # cli =>
           /\ cli'.command = "validate"
           /\ cli'.stdout = <<"Validating model: " \o cli'.model>>
           /\ cli'.exit_code = 0
           /\ cli'.opened = {}
           /\ files' = files]_vars

\* validate was run on a file that does not exist, and on one that holds
\* something else than JSON
C15_Witness ==
    /\ cli.command = "validate"
    /\ cli.model = "some_file.json"
    /\ files["some_file.json"] = Absent
    /\ cli.stdout = <<"Validating model: some_file.json">>
    /\ cli.exit_code = 0

-----------------------------------------------------------------------------
(* Default records of the Material Properties dialog                        *)

\* the fields the generators give for a material, with the default Ecm
\* factor for the deck
GradeDrivenFields(member, material) ==
    IF member = "Deck"
    THEN _deck_defaults(material, _factor_value_from_label(DEFAULT_ECM_FACTOR_LABEL, None))
    ELSE _steel_defaults(material)

\* C20: every member record of the Material Properties dialog that is flagged
\* is_default holds the grade-driven default fields of its own material, and
\* the deck record then has the default factor label (no custom factor)
C20_DefaultFlagMeansDefaults ==
    material_dialog.exists =>
        \A member \in Items(MEMBER_OPTIONS) :
            LET data == material_dialog.member_data[member]
            IN  (data # None /\ data.is_default) =>
                    /\ data.fields = GradeDrivenFields(member, data.material)
                    /\ member = "Deck" => data.factor_label = DEFAULT_ECM_FACTOR_LABEL

\* Fy of the girder was typed over and Default was checked again: the record
\* is default once more and holds the fields of its grade
C20_Witness ==
    /\ material_dialog.exists
    /\ material_dialog.current_member = "Girder"
    /\ dialog_event.handler = "default_checked"
    /\ dialog_event.before # None
    /\ ~dialog_event.before.is_default
    /\ FY \in DOMAIN dialog_event.before.fields
    /\ dialog_event.before.fields[FY] = Typed(120)
    /\ material_dialog.member_data["Girder"].is_default
    /\ material_dialog.member_data["Girder"].material = grade_combos["Girder"]
    /\ material_dialog.member_data["Girder"].fields = _steel_defaults(grade_combos["Girder"])
    /\ material_dialog.member_data["Girder"].fields[FY] # Typed(120)

-----------------------------------------------------------------------------
(* The two width computations of bridge_geometry.py on floats              *)

\* add(name, width) of _build_layout, for the running x alone
float_add_component(x, width) == IF width = {} THEN x ELSE float_add(x, width)

\* CrossSectionLayout(...).total_width
float_total_width(carriageway_width, crash_barrier_width, railing_width, footpath_width, median_width, no_of_footpaths) ==
    LET x0 == Float_0
        x1 == IF no_of_footpaths >= 1
              THEN float_add_component(float_add_component(x0, railing_width), footpath_width)
              ELSE x0
        x2 == float_add_component(x1, crash_barrier_width)
        x3 == float_add_component(x2, Shift(carriageway_width, -1))
        x4 == float_add_component(x3, median_width)
        x5 == float_add_component(x4, Shift(carriageway_width, -1))
        x6 == float_add_component(x5, crash_barrier_width)
    IN  IF no_of_footpaths >= 2
        THEN float_add_component(float_add_component(x6, footpath_width), railing_width)
        ELSE x6

\* calculate_bridge_width(...): the sum is evaluated from the left
float_calculate_bridge_width(carriageway_width, crash_barrier_width, median_width, no_of_footpaths, footpath_width, railing_width) ==
    float_add(float_add(float_add(float_add(carriageway_width,
                                            Shift(crash_barrier_width, 1)),
                                  median_width),
                        float_times(no_of_footpaths, footpath_width)),
              float_times(no_of_footpaths, railing_width))

\* a validation that compares the widths for equality
float_validate_exact(total_width, bridge_width, tol) ==
    IF total_width # bridge_width THEN "ValueError" ELSE "ok"

\* validate_against_bridge(bridge_width, tol) of a layout of that total width
float_validate_against_bridge(total_width, bridge_width, tol) ==
    IF Less(tol, float_abs_diff(total_width, bridge_width)) THEN "ValueError" ELSE "ok"

\* the widths compared: multiples of a quarter, decimal fractions, and one
\* width beyond the range where every integer is a float
FloatCarriagewayWidths == {Float_4_25, Float_7_5, Float_2_53}

FloatCrashBarrierWidths == {Float_0, Float_0_5, Float_0_45}

FloatRailingWidths == {Float_0, Float_0_15, Float_0_5}

FloatFootpathWidths == {Float_0, Float_1_5, Float_2_1}

FloatMedianWidths == {Float_0, Float_1_2, Float_1_5}

NoWidthCall ==
    [op |-> "none", carriageway_width |-> {}, crash_barrier_width |-> {}, railing_width |-> {},
     footpath_width |-> {}, median_width |-> {}, no_of_footpaths |-> 0,
     total_width |-> {}, bridge_width |-> {}, validate |-> "ok"]

WidthInit == width_call = NoWidthCall

WidthOthers ==
    /\ UNCHANGED <<end_diaphragm_tab, custom_pairs, window, lock_tooltip>>
    /\ UNCHANGED <<geoVars, dockVars, matVars, addVars, locVars, cliVars>>

\* a layout is built, a bridge width is computed from the same inputs, and the
\* layout is validated against that width with the default tolerance
CompareWidths(cw, cb, rw, fw, mw, n) ==
    /\ width_call.op = "none"
    /\ width_call' =
           LET total == float_total_width(cw, cb, rw, fw, mw, n)
               width == float_calculate_bridge_width(cw, cb, mw, n, fw, rw)
           IN  [op |-> "compare", carriageway_width |-> cw, crash_barrier_width |-> cb,
                railing_width |-> rw, footpath_width |-> fw, median_width |-> mw,
                no_of_footpaths |-> n, total_width |-> total, bridge_width |-> width,
                validate |-> float_validate_against_bridge(total, width, Float_1e_6)]
    /\ WidthOthers

\* the caller drops the layout and the width
ForgetWidths ==
    /\ width_call.op # "none"
    /\ width_call' = NoWidthCall
    /\ WidthOthers

NextWidth ==
    \/ \E cw \in FloatCarriagewayWidths, cb \in FloatCrashBarrierWidths, rw \in FloatRailingWidths :
          \E fw \in FloatFootpathWidths, mw \in FloatMedianWidths, n \in FootpathCounts :
              CompareWidths(cw, cb, rw, fw, mw, n)
    \/ ForgetWidths

-----------------------------------------------------------------------------
(* Properties of the two width computations                                *)

Compared == width_call.op = "compare"

ComparedWidths ==
    {width_call.carriageway_width, width_call.crash_barrier_width, width_call.railing_width,
     width_call.footpath_width, width_call.median_width}

\* every width is a multiple of a quarter below 2^50, so that every partial
\* sum of either computation is a float
QuarterWidths == \A w \in ComparedWidths : \A e \in w : e >= -2 /\ e < 50

\* every width is below 128 (the program limits the carriageway to 23.6)
ModerateWidths == \A w \in ComparedWidths : \A e \in w : e < 7

\* 2.0 ** -40
RoundingAllowance == {-40}

\* C23 (as stated): for all non-negative component widths and every footpath
\* count in {0, 1, 2}, total_width of the layout built from the inputs equals
\* calculate_bridge_width of the same inputs, so the layout passes
\* validate_against_bridge against a bridge of that width.
C23_AsStated ==
    Compared =>
        /\ width_call.total_width = width_call.bridge_width
        /\ width_call.validate = "ok"

\* C23 (amended): the two computations add the same terms in different
\* orders.  They are equal when every width is a multiple of a quarter below
\* 2^50; for widths below 128 they differ by less than 2^-40, and the layout
\* passes validate_against_bridge with the default tolerance 1e-6.
C23_WidthsAgreeWithinRounding ==
    Compared =>
        /\ QuarterWidths => width_call.total_width = width_call.bridge_width
        /\ ModerateWidths =>
              /\ Less(float_abs_diff(width_call.total_width, width_call.bridge_width), RoundingAllowance)
              /\ width_call.validate = "ok"

\* carriageway 4.25 with a railing of 0.15 on both sides: the layout adds up
\* to 4.550000000000001 and calculate_bridge_width to 4.55; the validation
\* passes
C23_Witness ==
    /\ Compared
    /\ width_call.carriageway_width = Float_4_25
    /\ width_call.railing_width = Float_0_15
    /\ width_call.crash_barrier_width = Float_0
    /\ width_call.footpath_width = Float_0
    /\ width_call.median_width = Float_0
    /\ width_call.no_of_footpaths = 2
    /\ width_call.total_width # width_call.bridge_width
    /\ Less(width_call.bridge_width, width_call.total_width)
    /\ width_call.validate = "ok"

\* quarter widths with two footpaths: the two computations are equal
C23_ExactWitness ==
    /\ Compared
    /\ QuarterWidths
    /\ width_call.no_of_footpaths = 2
    /\ width_call.footpath_width = Float_1_5
    /\ width_call.railing_width = Float_0_5
    /\ width_call.median_width = Float_1_5
    /\ width_call.carriageway_width = Float_7_5
    /\ width_call.crash_barrier_width = Float_0_5
    /\ width_call.total_width = width_call.bridge_width
    /\ width_call.total_width = {3, 2, 1}

-----------------------------------------------------------------------------
(* Load geometries and the bridge rectangle                                *)

LoadQueries == {"deck_load", "footpath_load", "crash_barrier_load", "railing_load", "median_line_load"}

\* a load query returned a geometry
LoadReturned == result.op \in LoadQueries /\ result.status = "ok"

PointsOf(geometry) == {geometry[i] : i \in 1..Len(geometry)}

\* every point of the geometry lies in [0, x_max] x [0, span]
InsideRectangle(geometry, x_max, span) ==
    \A p \in PointsOf(geometry) : p.x >= 0 /\ p.x <= x_max /\ p.z >= 0 /\ p.z <= span

\* a line load lies within the component it was resolved from
LineWithinComponent ==
    result.op \in {"crash_barrier_load", "railing_load", "median_line_load"} =>
        LET comp == TheComponent(layout, QueryKey(result.op, result.side))
        IN  \A p \in PointsOf(result.points) : p.x >= comp.x_start /\ p.x <= comp.x_end

\* C25 (as stated): for a manager whose layout passes validate_against_bridge
\* against its bridge's width, every geometry returned by deck_load,
\* footpath_load, crash_barrier_load, railing_load and median_line_load lies
\* inside the bridge rectangle (0 <= x <= width and 0 <= z <= span), and the x
\* of each line load lies within [x_start, x_end] of its component.
C25_AsStated ==
    \A tol \in Tolerances :
        (LoadReturned /\ validate_against_bridge(layout, bridge.width, tol) = "ok") =>
            /\ InsideRectangle(result.points, bridge.width, bridge.span)
            /\ LineWithinComponent

\* the points are on the two ends of the span: z is 0 or the span
OnSpanEnds(geometry, span) == \A p \in PointsOf(geometry) : p.z \in {0, span}

\* C25 (amended): for a manager whose layout passes validate_against_bridge
\* against its bridge's width with tolerance tol, every point returned by the
\* five load queries has z = 0 or z = span; the points of deck_load have x = 0
\* or x = width, those of the other four queries 0 <= x <= the layout's total
\* width, which is at most width + tol; so that on a bridge whose width and
\* span are not negative every geometry has 0 <= x <= width + tol and
\* 0 <= z <= span; and the x of each line load lies within [x_start, x_end]
\* of its component.
C25_LoadsInsideWithinTolerance ==
    \A tol \in Tolerances :
        (LoadReturned /\ validate_against_bridge(layout, bridge.width, tol) = "ok") =>
            /\ OnSpanEnds(result.points, bridge.span)
            /\ result.op = "deck_load" => \A p \in PointsOf(result.points) : p.x \in {0, bridge.width}
            /\ result.op # "deck_load" => \A p \in PointsOf(result.points) : p.x >= 0 /\ p.x <= layout.total_width
            /\ layout.total_width <= bridge.width + tol
            /\ (bridge.width >= 0 /\ bridge.span >= 0) => InsideRectangle(result.points, bridge.width + tol, bridge.span)
            /\ LineWithinComponent

\* the layout is a quarter wider than the bridge, which the tolerance of a
\* quarter accepts; the right footpath is the last strip and its patch ends
\* at the layout's width, beyond the bridge
C25_Witness ==
    /\ LoadReturned
    /\ result.op = "footpath_load"
    /\ result.side = "right"
    /\ layout.total_width = bridge.width + 1
    /\ validate_against_bridge(layout, bridge.width, 1) = "ok"
    /\ result.points[2].x = layout.total_width
    /\ result.points[2].x > bridge.width

\* a railing line on a bridge of exactly the layout's width
C25_LineWitness ==
    /\ LoadReturned
    /\ result.op = "railing_load"
    /\ result.side = "right"
    /\ layout.total_width = bridge.width
    /\ result.points[1].x > TheComponent(layout, "railing_right").x_start
    /\ result.points[1].x < bridge.width

\* an empty layout on a bridge a quarter narrower than nothing: the
\* tolerance of a quarter accepts the pair, and the deck patch has corners at
\* the negative width
C25_NegativeWidthWitness ==
    /\ LoadReturned
    /\ result.op = "deck_load"
    /\ layout.total_width = 0
    /\ bridge.width = -1
    /\ validate_against_bridge(layout, bridge.width, 1) = "ok"
    /\ \E p \in PointsOf(result.points) : p.x < 0

\* a bridge of negative span: the far end of a line load is at z < 0
C25_NegativeSpanWitness ==
    /\ LoadReturned
    /\ result.op = "railing_load"
    /\ bridge.span < 0
    /\ validate_against_bridge(layout, bridge.width, 0) = "ok"
    /\ result.points[2].z = bridge.span

-----------------------------------------------------------------------------
(* The carriageway field after validation                                  *)

\* the field holds a number within the limits of the selector's state
FieldWithinLimits ==
    /\ carriageway_input.text.form = "fixed"
    /\ carriageway_input.text.val >= _carriageway_limits(include_median_combo).min_width
    /\ carriageway_input.text.val <= CARRIAGEWAY_WIDTH_MAX_LIMIT

\* C21: a change of the Include Median selector clamps a carriageway width
\* that stands in the field into the bounds of the new selection and shows no
\* warning; after every run of the validation (an edit that was finished, or
\* a change of the selector) the field is empty or holds a value in
\* [min_width, 23.6], min_width being 7.5 with the median and 4.25 without.
C21_MedianChangeReclampsSilently ==
    /\ ValidationRan =>
          \/ carriageway_input.text = Blank
          \/ FieldWithinLimits
    /\ (event.handler = "on_include_median_changed") =>
          /\ message_box = ""
          /\ ParseableEntry => FieldWithinLimits
          /\ carriageway_input.placeholder.min_width = _carriageway_limits(include_median_combo).min_width

\* 4.25, valid without the median, stood in the field when the median was
\* switched on: the field now holds 7.50 and no warning was shown
C21_Witness ==
    /\ event.handler = "on_include_median_changed"
    /\ event.text = Fixed(CARRIAGEWAY_WIDTH_MIN)
    /\ include_median_combo = "Yes"
    /\ carriageway_input.text = Fixed(CARRIAGEWAY_WIDTH_MIN_WITH_MEDIAN)
    /\ message_box = ""

-----------------------------------------------------------------------------
(* The input dock with its Additional Inputs window: the window is shown   *)
(* non-modally, so the dock's fields are changed while it is open          *)

\* the carriageway entries made while the window is followed: none, an
\* unparseable one, one below every minimum, one between the two minima, one
\* within and one above the limits
EntriesWithWindow == {Blank, Junk, Typed(300), Typed(500), Typed(1200), Typed(3000)}

NextDockWithAdditional ==
    \/ \E text \in EntriesWithWindow : TypeCarriageway(text)
    \/ CarriagewayEditingFinished
    \/ \E value \in {"No", "Yes"} : IncludeMedianChanged(value)
    \/ ShowAdditionalInputs
    \/ CloseAdditionalInputs
    \/ \E value \in Items(VALUES_FOOTPATH) : FootpathChanged(value)

\* what show_additional_inputs would pass to a new window now
CurrentEffectiveWidth ==
    _get_effective_carriageway_width(carriageway_input.text, include_median_combo)

\* C22: while an Additional Inputs window is open, the footpath selection and
\* the carriageway width of its Typical Section Details tab equal the dock's
\* current footpath selection and current effective carriageway width (the
\* clamped value, doubled when the median is included)
C22_WindowFollowsDock ==
    additional_inputs_window = "visible" =>
        /\ additional_inputs_widget.footpath_value = footpath_combo
        /\ additional_inputs_widget.carriageway_width = CurrentEffectiveWidth

\* the part of C22 the code keeps: the footpath selection of the open window
\* is the dock's
C22_FootpathFollowsDock ==
    additional_inputs_window = "visible" =>
        additional_inputs_widget.footpath_value = footpath_combo

-----------------------------------------------------------------------------
(* The overall bridge width of the dialog and of the domain model          *)

\* the three width fields of the tab hold numbers
WidthFieldsParse ==
    /\ additional_inputs_widget.crash_barrier_width # None
    /\ additional_inputs_widget.railing_width # None
    /\ \A field \in {"footpath_width", "crash_barrier_width", "railing_width"} :
          /\ NonEmpty(additional_inputs_widget[field])
          /\ float64(additional_inputs_widget[field]).ok

\* calculate_bridge_width for the widths of the tab, without a median
DomainWidth ==
    Positive(float_calculate_bridge_width(
                 Number(additional_inputs_widget.carriageway_width).mag,
                 float64(additional_inputs_widget.crash_barrier_width).val.mag,
                 Float_0,
                 FootpathCount(additional_inputs_widget.footpath_value),
                 float64(additional_inputs_widget.footpath_width).val.mag,
                 float64(additional_inputs_widget.railing_width).val.mag))

\* C24: for every footpath selection (None, Single Sided, Both) and the same
\* carriageway, footpath, crash-barrier and railing widths with zero median
\* width, the overall bridge width computed by the Additional Inputs tab
\* equals calculate_bridge_width with no_of_footpaths = 0, 1 or 2
C24_DialogWidthIsDomainWidth ==
    (additional_inputs_widget # None /\ WidthFieldsParse) =>
        get_overall_bridge_width(additional_inputs_widget) = DomainWidth

-----------------------------------------------------------------------------
(* EndDiaphragmDetailsTab (additional_inputs.py): three sub-views, one per *)
(* type, each with its own Type selector; self is the record               *)
(* [type_selectors, current_type, type_stack, block_type_sync, log].       *)
(* log lists the setCurrentIndex calls made on the stack.                  *)

VALUES_END_DIAPHRAGM_TYPE == <<"Cross Bracing", "Rolled Beam", "Welded Beam">>

\* view_order after the three _add_type_view calls
view_order == VALUES_END_DIAPHRAGM_TYPE

\* list.index(value), counted from 1 as the sequences are
IndexOf(list, value) == CHOOSE i \in 1..Len(list) : list[i] = value

\* _set_current_type without the loop over the selectors
_set_current_type_stack_only(self, target) ==
    IF target \notin Items(view_order) \/ self.current_type = target
    THEN self
    ELSE [self EXCEPT !.current_type = target,
                      !.type_stack = IndexOf(view_order, target),
                      !.log = Append(self.log, IndexOf(view_order, target))]

RECURSIVE selector_setCurrentText(_, _, _)
RECURSIVE _handle_type_selection(_, _)
RECURSIVE SyncSelectors(_, _, _)
RECURSIVE _set_current_type(_, _)

\* type_selectors[i].setCurrentText(target): currentTextChanged is emitted
\* when the text changes, and its slot runs before the call returns
selector_setCurrentText(self, i, target) ==
    IF self.type_selectors[i] = target \/ target \notin Items(VALUES_END_DIAPHRAGM_TYPE)
    THEN self
    ELSE _handle_type_selection([self EXCEPT !.type_selectors[i] = target], target)

_handle_type_selection(self, value) ==
    IF self.block_type_sync THEN self
    ELSE IF value \in Items(view_order) THEN _set_current_type(self, value)
    ELSE self

\* for selector in self.type_selectors: selector.setCurrentText(target)
SyncSelectors(self, i, target) ==
    IF i > Len(self.type_selectors) THEN self
    ELSE SyncSelectors(selector_setCurrentText(self, i, target), i + 1, target)

_set_current_type(self, target) ==
    IF target \notin Items(view_order) \/ self.current_type = target
    THEN self
    ELSE LET switched == [self EXCEPT !.current_type = target,
                                      !.type_stack = IndexOf(view_order, target),
                                      !.log = Append(self.log, IndexOf(view_order, target)),
                                      !.block_type_sync = TRUE]
         IN  [SyncSelectors(switched, 1, target) EXCEPT !.block_type_sync = FALSE]

\* __init__: each selector is built showing the type of its own view, the
\* first view added is the current page of the stack, and the tab is then
\* set to "Cross Bracing"
EndDiaphragmDetailsTab ==
    _set_current_type([type_selectors |-> VALUES_END_DIAPHRAGM_TYPE,
                       current_type |-> "None",
                       type_stack |-> 1,
                       block_type_sync |-> FALSE,
                       log |-> <<>>],
                      "Cross Bracing")

\* user selections followed
MaxSelections == 5

NoSelection == [selector |-> 0, value |-> "", before |-> <<>>]

EndDiaphragmInit ==
    end_diaphragm_tab = [tab |-> EndDiaphragmDetailsTab, selection |-> NoSelection, selections |-> 0]

\* the user picks another type in the Type selector of a sub-view
SelectType(i, value) ==
    /\ end_diaphragm_tab.selections < MaxSelections
    /\ value # end_diaphragm_tab.tab.type_selectors[i]
    /\ end_diaphragm_tab' =
           [tab |-> selector_setCurrentText(end_diaphragm_tab.tab, i, value),
            selection |-> [selector |-> i, value |-> value, before |-> end_diaphragm_tab.tab.log],
            selections |-> end_diaphragm_tab.selections + 1]
    /\ UNCHANGED <<width_call, custom_pairs, window, lock_tooltip>>
    /\ UNCHANGED <<geoVars, dockVars, matVars, addVars, locVars, cliVars>>

NextEndDiaphragm ==
    \E i \in 1..Len(VALUES_END_DIAPHRAGM_TYPE), value \in Items(VALUES_END_DIAPHRAGM_TYPE) :
        SelectType(i, value)

\* C26: after any sequence of End Diaphragm type selections made in any of
\* the three sub-views, all three type selectors show the same type, that
\* type is the displayed sub-layout, each user selection causes exactly one
\* switch of the displayed sub-layout, and block_type_sync is false between
\* handlers
C26_TypeSelectorsInSync ==
    LET tab == end_diaphragm_tab.tab
    IN  /\ \A i \in 1..Len(tab.type_selectors) : tab.type_selectors[i] = tab.current_type
        /\ view_order[tab.type_stack] = tab.current_type
        /\ ~tab.block_type_sync
        /\ end_diaphragm_tab.selection.selector # 0 =>
              /\ Len(tab.log) = Len(end_diaphragm_tab.selection.before) + 1
              /\ tab.current_type = end_diaphragm_tab.selection.value

\* "Welded Beam" was picked in the selector of the Rolled Beam view after an
\* earlier selection: the stack shows the third view and every selector
\* follows
C26_Witness ==
    /\ end_diaphragm_tab.selection.selector = 2
    /\ end_diaphragm_tab.selection.value = "Welded Beam"
    /\ end_diaphragm_tab.tab.type_stack = 3
    /\ end_diaphragm_tab.tab.type_selectors = <<"Welded Beam", "Welded Beam", "Welded Beam">>
    /\ end_diaphragm_tab.tab.log = <<1, 2, 3>>

-----------------------------------------------------------------------------
(* The Automatic/Custom selectors of the Seismic Load and Wind Load pages  *)
(* (additional_inputs.py), each with the value field below it.  A pair is  *)
(* [combo, enabled, text]: the selector's text, and the value field's      *)
(* enabled state and text.                                                 *)

\* dead_load_seismic_combo / dead_load_custom_input and
\* live_load_seismic_combo / live_load_custom_input
SeismicPairs == {"dead_load", "live_load"}

\* <name>_combo / <name>_value of the Wind Load page
WindPairs ==
    {"gust_factor", "drag_coeff", "drag_coeff_ll", "lift_coeff", "super_area_elev",
     "super_area_plain", "exposed_frontal_area", "wind_ecc_deck", "wind_ll_ecc"}

PairNames == SeismicPairs \cup WindPairs

\* addItems(["Automatic", "Custom"])
PairModes == <<"Automatic", "Custom">>

\* _on_dead_load_mode_changed(mode) on the pair of the dead load
_on_dead_load_mode_changed(pair, mode) ==
    LET is_custom == mode = "Custom"
    IN  [pair EXCEPT !.enabled = is_custom,
                     !.text = IF ~is_custom THEN "" ELSE pair.text]

\* _on_live_load_mode_changed(mode) on the pair of the live load
_on_live_load_mode_changed(pair, mode) ==
    LET is_custom == mode = "Custom"
    IN  [pair EXCEPT !.enabled = is_custom,
                     !.text = IF ~is_custom THEN "" ELSE pair.text]

\* lambda t: self.<name>_value.setEnabled(t == "Custom")
wind_combo_changed(pair, t) == [pair EXCEPT !.enabled = (t = "Custom")]

\* the slot connected to currentTextChanged of the pair's selector
currentTextChanged(name, pair, text) ==
    IF name = "dead_load" THEN _on_dead_load_mode_changed(pair, text)
    ELSE IF name = "live_load" THEN _on_live_load_mode_changed(pair, text)
    ELSE wind_combo_changed(pair, text)

\* user changes followed
MaxPairChanges == 3

\* what the user types into a value field
PairValueTexts == {"", "1.2"}

\* the pages as built: every selector shows its first item, every value
\* field is disabled and empty
CustomPairsInit ==
    custom_pairs = [pairs |-> [name \in PairNames |->
                                  [combo |-> PairModes[1], enabled |-> FALSE, text |-> ""]],
                    changes |-> 0]

PairOthers ==
    /\ UNCHANGED <<width_call, end_diaphragm_tab, window, lock_tooltip>>
    /\ UNCHANGED <<geoVars, dockVars, matVars, addVars, locVars, cliVars>>

\* the user picks the other item of a selector
SelectMode(name, mode) ==
    /\ custom_pairs.changes < MaxPairChanges
    /\ mode # custom_pairs.pairs[name].combo
    /\ custom_pairs' =
           [pairs |-> [custom_pairs.pairs EXCEPT ![name] =
                          currentTextChanged(name, [@ EXCEPT !.combo = mode], mode)],
            changes |-> custom_pairs.changes + 1]
    /\ PairOthers

\* the user types into a value field, which takes input only while enabled
TypeValue(name, text) ==
    /\ custom_pairs.changes < MaxPairChanges
    /\ custom_pairs.pairs[name].enabled
    /\ text # custom_pairs.pairs[name].text
    /\ custom_pairs' =
           [pairs |-> [custom_pairs.pairs EXCEPT ![name].text = text],
            changes |-> custom_pairs.changes + 1]
    /\ PairOthers

NextCustomPairs ==
    \/ \E name \in PairNames, mode \in Items(PairModes) : SelectMode(name, mode)
    \/ \E name \in PairNames, text \in PairValueTexts : TypeValue(name, text)

\* C27: for every Automatic/Custom selector with its value field (the nine
\* pairs of the Wind Load page and the dead-load and live-load pairs of the
\* Seismic Load page), the value field is enabled exactly while the selector
\* shows "Custom", and the value field is empty whenever the selector does
\* not show "Custom"
C27_CustomPairs ==
    \A name \in PairNames :
        LET pair == custom_pairs.pairs[name]
        IN  /\ pair.enabled <=> (pair.combo = "Custom")
            /\ pair.combo # "Custom" => pair.text = ""

\* the part of C27 the code keeps on every pair, and the clearing on the two
\* seismic pairs
C27_EnabledFollowsSelector ==
    \A name \in PairNames :
        LET pair == custom_pairs.pairs[name]
        IN  /\ pair.enabled <=> (pair.combo = "Custom")
            /\ (name \in SeismicPairs /\ pair.combo # "Custom") => pair.text = ""

-----------------------------------------------------------------------------
(* The template page: CustomWindow with its splitter (input dock, central  *)
(* pane and, from line 192 on, output dock), the two indicator strips, the *)
(* three docking flags and the log dock.  The window is the object that    *)
(* CustomWindow.__init__ leaves: its methods are run on that object.       *)
(* Widths are in units of one pixel column.  What a method reads from Qt   *)
(* (the size hints of the docks, the sizes a splitter reports before its   *)
(* first setSizes, the width of the input dock, the parent of the log      *)
(* dock) is an argument of the operator that models it.                    *)

\* sizeHint().width() of the input dock and of the output dock
SizeHints == {[input |-> 5, output |-> 4], [input |-> 6, output |-> 6]}

\* the net widths the window is resized to
WindowWidths == {9, 11, 12}

\* InputDock.width() when its toggle is clicked
DockWidths == {0, 5}

\* LogDock.parent(): the window it was constructed with, or the vertical
\* splitter it was added to at line 173
LogDockParents == {"CustomWindow", "QSplitter"}

\* an optional argument that is left out (None), and one that is given
NotGiven == <<>>

Given(value) == <<value>>

\* LogDock.__init__ and LogDock.init_ui: the flag starts True and the dock
\* shows itself
LogDock == [is_visible |-> TRUE, shown |-> TRUE]

\* OutputDock.__init__(self) called with the given keyword arguments: it
\* declares none, so that any keyword raises TypeError
OutputDock(keywords) == [raised |-> IF keywords = {} THEN "" ELSE "TypeError"]

\* CustomWindow.init_ui in a window of the given net width: the three
\* flags, the splitter with the input dock and the central widget, the
\* indicator strips and the log dock are set up before line 191; that line
\* calls OutputDock(parent=self), and its exception leaves output_dock None,
\* the splitter with two widgets and no sizes set, and is passed on by
\* __init__.  Lines 192 to 205 follow the call and are not reached; the
\* window is never shown
init_ui(width) ==
    [raised |-> OutputDock({"parent"}).raised,
     width |-> width,
     visible |-> FALSE,
     count |-> 2,
     input_dock_active |-> TRUE,
     log_dock_active |-> FALSE,
     output_dock_active |-> FALSE,
     logs_dock_active |-> NotGiven,
     input_dock_label |-> FALSE,
     output_dock_label |-> TRUE,
     input_dock |-> TRUE,
     output_dock |-> FALSE,
     logs_dock |-> [LogDock EXCEPT !.shown = FALSE],
     sizes |-> <<>>]

\* CustomWindow(title, backend): __init__ ends with init_ui
CustomWindow(width) == init_ui(width)

\* self.splitter.sizes(): the sizes last set; before the first setSizes one
\* entry of 0 for each widget of the splitter, or no entry
SplitterSizes(self) ==
    IF self.sizes # <<>> THEN {self.sizes}
    ELSE IF self.count = 2 THEN {<<>>, <<0, 0>>}
    ELSE {<<>>, <<0, 0, 0>>}

\* CustomWindow.update_docking_icons(input_is_active, log_is_active,
\* output_is_active); the log branch also sets an attribute logs_dock_active,
\* which nothing reads
update_docking_icons(self, input_is_active, log_is_active, output_is_active) ==
    [self EXCEPT !.raised = "",
                 !.input_dock_active = IF input_is_active = NotGiven THEN @ ELSE input_is_active[1],
                 !.output_dock_active = IF output_is_active = NotGiven THEN @ ELSE output_is_active[1],
                 !.log_dock_active = IF log_is_active = NotGiven THEN @ ELSE log_is_active[1],
                 !.logs_dock_active = IF log_is_active = NotGiven THEN @ ELSE log_is_active]

\* InputDock.resizeEvent for a dock of the given width whose parent is the
\* window
InputDock_resizeEvent(parent, width) ==
    IF width = 0 THEN update_docking_icons(parent, Given(FALSE), NotGiven, NotGiven)
    ELSE IF width > 0 THEN update_docking_icons(parent, Given(TRUE), NotGiven, NotGiven)
    ELSE parent

\* self.splitter.setSizes(target_sizes): the input dock gets a resize event
\* when the width of its pane changes while the dock is visible, that is,
\* while the window is shown and the dock is not hidden; Qt sends no resize
\* event to a widget that is not visible
setSizes(self, target_sizes) ==
    LET sized == [self EXCEPT !.sizes = target_sizes]
    IN  IF self.visible /\ self.input_dock /\ (self.sizes = <<>> \/ self.sizes[1] # target_sizes[1])
        THEN InputDock_resizeEvent(sized, target_sizes[1])
        ELSE sized

\* dock_widget.hide() in toggle_animate and finalize_dock_toggle
hide_dock(self, dock) ==
    IF dock = "input" THEN [self EXCEPT !.input_dock = FALSE] ELSE [self EXCEPT !.output_dock = FALSE]

\* CustomWindow.finalize_dock_toggle
finalize_dock_toggle(self, show, dock, target_sizes) ==
    IF show THEN setSizes(self, target_sizes) ELSE hide_dock(setSizes(self, target_sizes), dock)

\* CustomWindow.animate_splitter_sizes with duration 0: the sizes are set at
\* once and on_finished (finalize_dock_toggle) is called
animate_splitter_sizes(self, show, dock, end_sizes) ==
    finalize_dock_toggle(setSizes(self, end_sizes), show, dock, end_sizes)

\* lines 271 to 326 of toggle_animate on a splitter that reports three sizes
toggle_three_panes(self, show, dock, sizes, size_hint) ==
    LET target_0 == IF dock = "input" THEN (IF show THEN size_hint.input ELSE 0) ELSE sizes[1]
        target_2 == IF dock = "input" THEN sizes[3] ELSE (IF show THEN size_hint.output ELSE 0)
        target_sizes == <<target_0, Max(0, self.width - target_0 - target_2), target_2>>
        labelled == IF dock = "input" THEN [self EXCEPT !.input_dock_label = ~show]
                    ELSE [self EXCEPT !.output_dock_label = ~show]
    IN  IF sizes = target_sizes
        THEN IF show THEN labelled ELSE hide_dock(labelled, dock)
        ELSE animate_splitter_sizes(labelled, show, dock, target_sizes)

\* CustomWindow.toggle_animate(show, dock), `sizes` being what
\* self.splitter.sizes() returns and size_hint the docks' size hints.  The
\* dock widget is self.splitter.widget(0) for the input dock and
\* widget(n - 1) for the output dock, which is the central widget while the
\* splitter has two widgets.  target_sizes is a copy of sizes: the input
\* branch assigns target_sizes[0], sets the indicator and reads sizes[2];
\* the output branch assigns target_sizes[2] before it sets the indicator;
\* an index the list does not have raises IndexError
toggle_animate(self, show, dock, sizes, size_hint) ==
    IF dock = "log" THEN [self EXCEPT !.raised = "", !.logs_dock.shown = show]
    ELSE IF dock \notin {"input", "output"} THEN [self EXCEPT !.raised = ""]
    ELSE LET shown == IF ~show THEN self
                      ELSE IF dock = "input" THEN [self EXCEPT !.input_dock = TRUE]
                      ELSE IF self.count = 3 THEN [self EXCEPT !.output_dock = TRUE]
                      ELSE self
         IN  IF Len(sizes) < (IF dock = "input" THEN 1 ELSE 3)
             THEN [shown EXCEPT !.raised = "IndexError"]
             ELSE IF Len(sizes) < 3
             THEN [shown EXCEPT !.raised = "IndexError", !.input_dock_label = ~show]
             ELSE toggle_three_panes([shown EXCEPT !.raised = ""], show, dock, sizes, size_hint)

\* InputDock.toggle_input_dock, the slot of the dock's toggle button, for a
\* dock of the given width: the dock collapses when it has a width
toggle_input_dock(parent, width, sizes, size_hint) == toggle_animate(parent, ~(width > 0), "input", sizes, size_hint)

\* CustomWindow.input_dock_toggle, the slot of the input docking icon
input_dock_toggle(self, width, sizes, size_hint) == toggle_input_dock(self, width, sizes, size_hint)

\* CustomWindow.output_dock_toggle, the slot of the output docking icon:
\* output_dock is None, and the OutputDock class has no toggle_output_dock
output_dock_toggle(self) == [self EXCEPT !.raised = "AttributeError"]

\* CustomWindow.resizeEvent when the net width became `width`: nothing is
\* done on a window that is not visible (no call blocks the signals of the
\* window) or whose splitter has fewer than three widgets
resizeEvent(self, width, size_hint) ==
    LET resized == [self EXCEPT !.raised = "", !.width = width]
        input_dock_width == IF self.input_dock THEN size_hint.input ELSE 0
        output_dock_width == IF self.output_dock THEN size_hint.output ELSE 0
    IN  IF ~self.visible THEN resized
        ELSE IF self.count < 3 THEN resized
        ELSE setSizes(resized, <<input_dock_width, Max(0, width - input_dock_width - output_dock_width), output_dock_width>>)

\* CustomWindow.logs_dock_toggle
logs_dock_toggle(self) ==
    [self EXCEPT !.raised = "",
                 !.log_dock_active = ~self.log_dock_active,
                 !.logs_dock.shown = ~self.log_dock_active]

\* LogDock.adjust_size of the window's log dock with the given parent: a
\* splitter has no attribute input_dock; with the window as parent the
\* method returns at once, as the window's output_dock is None
adjust_size(parent) == IF parent = "QSplitter" THEN "AttributeError" ELSE ""

\* LogDock.toggle_log_dock of the window's log dock: the flag is flipped; a
\* dock that becomes visible is shown, adjusted and moved, the other hidden
toggle_log_dock(self, parent) ==
    [self EXCEPT !.raised = IF ~self.logs_dock.is_visible THEN adjust_size(parent) ELSE "",
                 !.logs_dock.is_visible = ~self.logs_dock.is_visible,
                 !.logs_dock.shown = ~self.logs_dock.is_visible]

NoWindowCall == [op |-> "none", show |-> FALSE, dock |-> "", size_hint |-> [input |-> 0, output |-> 0], sizes |-> <<>>, input_dock_label |-> FALSE, output_dock_label |-> FALSE]

\* main(): window = CustomWindow("Osdag Bridge", FrontendData)
WindowInit == window = [self |-> CustomWindow(11), call |-> NoWindowCall]

WindowOthers == UNCHANGED <<geoVars, dockVars, matVars, addVars, locVars, cliVars, width_call, end_diaphragm_tab, custom_pairs, lock_tooltip>>

\* the call that is made, with what the window showed before it
WindowCall(op, show, dock, sizes, size_hint) ==
    [op |-> op, show |-> show, dock |-> dock, size_hint |-> size_hint, sizes |-> sizes,
     input_dock_label |-> window.self.input_dock_label,
     output_dock_label |-> window.self.output_dock_label]

NoHint == NoWindowCall.size_hint

ToggleAnimate(show, dock, sizes, size_hint) ==
    /\ window' = [self |-> toggle_animate(window.self, show, dock, sizes, size_hint),
                  call |-> WindowCall("toggle_animate", show, dock, sizes, size_hint)]
    /\ WindowOthers

\* a click on the input docking icon
InputDockToggle(width, sizes, size_hint) ==
    /\ window' = [self |-> input_dock_toggle(window.self, width, sizes, size_hint),
                  call |-> WindowCall("toggle_animate", ~(width > 0), "input", sizes, size_hint)]
    /\ WindowOthers

\* a click on the output docking icon
OutputDockToggle ==
    /\ window' = [self |-> output_dock_toggle(window.self), call |-> WindowCall("output_dock_toggle", FALSE, "output", <<>>, NoHint)]
    /\ WindowOthers

UpdateDockingIcons(input_is_active, log_is_active, output_is_active) ==
    /\ window' = [self |-> update_docking_icons(window.self, input_is_active, log_is_active, output_is_active),
                  call |-> WindowCall("update_docking_icons", FALSE, "", <<>>, NoHint)]
    /\ WindowOthers

ResizeWindow(width, size_hint) ==
    /\ width # window.self.width
    /\ window' = [self |-> resizeEvent(window.self, width, size_hint), call |-> WindowCall("resizeEvent", FALSE, "", <<>>, NoHint)]
    /\ WindowOthers

\* a click on the log docking icon
LogsDockToggle ==
    /\ window' = [self |-> logs_dock_toggle(window.self), call |-> WindowCall("logs_dock_toggle", FALSE, "log", <<>>, NoHint)]
    /\ WindowOthers

ToggleLogDock(parent) ==
    /\ window' = [self |-> toggle_log_dock(window.self, parent), call |-> WindowCall("toggle_log_dock", FALSE, "log", <<>>, NoHint)]
    /\ WindowOthers

OptionalFlags == {NotGiven, Given(TRUE), Given(FALSE)}

NextWindow ==
    \/ \E show \in BOOLEAN, dock \in {"input", "output", "log"}, sizes \in SplitterSizes(window.self), size_hint \in SizeHints :
           ToggleAnimate(show, dock, sizes, size_hint)
    \/ \E width \in DockWidths, sizes \in SplitterSizes(window.self), size_hint \in SizeHints : InputDockToggle(width, sizes, size_hint)
    \/ OutputDockToggle
    \/ \E input_is_active \in OptionalFlags, log_is_active \in OptionalFlags, output_is_active \in OptionalFlags :
           UpdateDockingIcons(input_is_active, log_is_active, output_is_active)
    \/ \E width \in WindowWidths, size_hint \in SizeHints : ResizeWindow(width, size_hint)
    \/ LogsDockToggle
    \/ \E parent \in LogDockParents : ToggleLogDock(parent)

\* the claim's initial state: input dock shown with its indicator hidden,
\* output dock not shown with its indicator visible
InitialDocks ==
    /\ window.self.input_dock /\ ~window.self.input_dock_label
    /\ ~window.self.output_dock /\ window.self.output_dock_label

DockToggled == window.call.op = "toggle_animate" /\ window.call.dock \in {"input", "output"}

\* each indicator strip is visible exactly when the pane of its dock has no
\* width
IndicatorsFollowPanes ==
    /\ window.self.input_dock_label <=> (window.self.sizes[1] = 0)
    /\ window.self.output_dock_label <=> (window.self.sizes[3] = 0)

\* the call returned and the splitter has the three panes the claim speaks
\* of: the toggled one at the dock's size hint or at 0, the other dock's
\* pane and indicator as they were, the central pane with the rest
ToggleSetsPanes ==
    LET self == window.self
        call == window.call
    IN  /\ self.raised = ""
        /\ Len(self.sizes) = 3 /\ Len(call.sizes) = 3
        /\ call.dock = "input" =>
            /\ self.sizes[1] = (IF call.show THEN call.size_hint.input ELSE 0)
            /\ self.sizes[3] = call.sizes[3]
            /\ self.output_dock_label = call.output_dock_label
        /\ call.dock = "output" =>
            /\ self.sizes[3] = (IF call.show THEN call.size_hint.output ELSE 0)
            /\ self.sizes[1] = call.sizes[1]
            /\ self.input_dock_label = call.input_dock_label
        /\ self.sizes[2] = Max(0, self.width - self.sizes[1] - self.sizes[3])

C28_ToggleRaises ==
    DockToggled =>
        /\ window.self.raised = "IndexError"
        /\ window.self.sizes = <<>>
        /\ window.self.output_dock_label = window.call.output_dock_label
        /\ window.self.input_dock_label =
               (IF window.call.dock = "input" /\ Len(window.call.sizes) > 0 THEN ~window.call.show ELSE window.call.input_dock_label)

\* toggle_animate(False, 'input') has raised IndexError after it made the
\* input indicator visible: the indicator shows beside a dock that is still
\* shown and whose pane was not collapsed
C28_IndicatorBesideShownDock ==
    /\ DockToggled /\ window.call.dock = "input" /\ ~window.call.show
    /\ window.self.raised = "IndexError"
    /\ window.self.input_dock_label /\ window.self.input_dock
    /\ window.self.sizes = <<>>

\* C30: from the construction of the window onward and after any sequence of
\* LogDock.toggle_log_dock(), logs_dock_toggle() and toggle_animate(show,
\* 'log') calls, the log dock's is_visible flag and the window's
\* log_dock_active flag both equal the log dock's actual shown state
C30_LogFlagsMatchShown ==
    /\ window.self.logs_dock.is_visible = window.self.logs_dock.shown
    /\ window.self.log_dock_active = window.self.logs_dock.shown

\* what the code does keep: each toggle leaves its own flag equal to the
\* shown state it has just set
C30_ToggleSetsOwnFlag ==
    /\ window.call.op = "logs_dock_toggle" => window.self.log_dock_active = window.self.logs_dock.shown
    /\ window.call.op = "toggle_log_dock" => window.self.logs_dock.is_visible = window.self.logs_dock.shown

\* the log dock was shown through toggle_animate(True, 'log') and neither
\* flag followed: both flags say hidden beside a shown dock
C30_ShownBesideClearFlags ==
    /\ window.call.op = "toggle_animate" /\ window.call.dock = "log" /\ window.call.show
    /\ window.self.logs_dock.shown
    /\ ~window.self.log_dock_active
    /\ ~window.self.logs_dock.is_visible

-----------------------------------------------------------------------------
(* The lock tooltip of the input dock: eventFilter, show_lock_tooltip,     *)
(* clear_force_hover and the single-shot tooltip_timer.  Time passes in    *)
(* steps of one Tick; `remaining` is the time in milliseconds until the    *)
(* running timer times out.  Nothing limits the number of presses.         *)

TOOLTIP_MSEC == 3000

\* the steps in which the interval of the timer passes
TimerSteps == 12

Tick == TOOLTIP_MSEC \div TimerSteps

\* no tooltip_timer attribute yet
NoTimer == [exists |-> FALSE, active |-> FALSE, remaining |-> 0]

NoTooltipCall == [op |-> "none", locked |-> FALSE, shown |-> FALSE, timer |-> NoTimer]

\* the variant of show_lock_tooltip that lets a running timer run on
show_lock_tooltip_without_restart(self) ==
    LET created == IF self.timer.exists THEN self
                   ELSE [self EXCEPT !.timer.exists = TRUE, !.timers = self.timers + 1]
    IN  [created EXCEPT !.forceHover = TRUE,
                        !.shown = TRUE,
                        !.timer.remaining = IF self.timer.active THEN self.timer.remaining ELSE TOOLTIP_MSEC,
                        !.timer.active = TRUE]

\* InputDock.show_lock_tooltip: stop the running timer, force the hover
\* state of the lock button, show the tooltip, create the timer on first
\* use, start it
show_lock_tooltip(self) ==
    LET stopped == IF self.timer.exists /\ self.timer.active
                   THEN [self EXCEPT !.timer.active = FALSE]
                   ELSE self
        hovered == [stopped EXCEPT !.forceHover = TRUE, !.shown = TRUE]
        created == IF hovered.timer.exists THEN hovered
                   ELSE [hovered EXCEPT !.timer.exists = TRUE, !.timers = hovered.timers + 1]
    IN  [created EXCEPT !.timer.active = TRUE, !.timer.remaining = TOOLTIP_MSEC]

\* InputDock.eventFilter for a MouseButtonPress on the scroll area
eventFilter(self, locked) == IF locked THEN show_lock_tooltip(self) ELSE self

\* InputDock.clear_force_hover
clear_force_hover(self) == [self EXCEPT !.forceHover = FALSE]

\* tooltip_timer.timeout: lock_btn_tooltip.hide, then clear_force_hover; the
\* timer is single-shot and stops
timeout(self) == clear_force_hover([self EXCEPT !.shown = FALSE, !.timer.active = FALSE, !.timer.remaining = 0])

TooltipInit ==
    lock_tooltip = [shown |-> FALSE, forceHover |-> FALSE, timer |-> NoTimer, timers |-> 0, call |-> NoTooltipCall]

TooltipOthers == UNCHANGED <<geoVars, dockVars, matVars, addVars, locVars, cliVars, width_call, end_diaphragm_tab, custom_pairs, window>>

TooltipCall(op) == [op |-> op, locked |-> is_locked, shown |-> lock_tooltip.shown, timer |-> lock_tooltip.timer]

\* a mouse press on the scroll area, at any time and any number of times
MousePress ==
    /\ lock_tooltip' = [eventFilter(lock_tooltip, is_locked) EXCEPT !.call = TooltipCall("press")]
    /\ TooltipOthers

\* one Tick passes while the timer runs; the timeout is delivered when no
\* time remains
TimePasses ==
    /\ lock_tooltip.timer.active
    /\ lock_tooltip' =
           IF lock_tooltip.timer.remaining > Tick
           THEN [lock_tooltip EXCEPT !.timer.remaining = lock_tooltip.timer.remaining - Tick, !.call = TooltipCall("wait")]
           ELSE [timeout(lock_tooltip) EXCEPT !.call = TooltipCall("timeout")]
    /\ TooltipOthers

NextTooltip ==
    \/ MousePress
    \/ TimePasses
    \/ ToggleLock

Pressed == lock_tooltip.call.op = "press"

TooltipSafety ==
    /\ (Pressed /\ ~lock_tooltip.call.locked) =>
           /\ lock_tooltip.shown = lock_tooltip.call.shown
           /\ lock_tooltip.timer = lock_tooltip.call.timer
    /\ (Pressed /\ lock_tooltip.call.locked) =>
           /\ lock_tooltip.shown
           /\ lock_tooltip.timer.active /\ lock_tooltip.timer.remaining = TOOLTIP_MSEC
    /\ lock_tooltip.timers <= 1
    /\ lock_tooltip.shown => lock_tooltip.timer.active
    /\ lock_tooltip.call.op = "timeout" => ~lock_tooltip.shown /\ ~lock_tooltip.timer.active
    /\ lock_tooltip.forceHover <=> lock_tooltip.shown

\* the last step was a press on the locked dock, which restarted the timer
LockedPress == Pressed /\ lock_tooltip.call.locked

\* C29 (as stated): a mouse press on the input scroll area shows the "Unlock
\* to Edit" tooltip only if the dock is locked at that moment; every shown
\* tooltip is eventually hidden by the single-shot 3-second timer; a further
\* press while it is shown restarts that timer instead of adding a second
\* one; and the lock button's forced-hover flag is set exactly while the
\* tooltip is shown
C29_AsStated == []TooltipSafety /\ (lock_tooltip.shown ~> ~lock_tooltip.shown)

\* C29 (amended): a mouse press on the input scroll area shows the tooltip
\* only if the dock is locked at that moment; a press while it is shown
\* restarts the single-shot 3-second timer instead of adding a second one,
\* so that the tooltip stays for as long as the locked dock is pressed again
\* within 3 seconds; it is hidden by the timer 3 seconds after the last such
\* press, hence eventually whenever the presses on the locked dock come to
\* an end; and the lock button's forced-hover flag is set exactly while the
\* tooltip is shown
C29_LockTooltip ==
    /\ []TooltipSafety
    /\ (<>[]~LockedPress) => (lock_tooltip.shown ~> ~lock_tooltip.shown)

\* a press on the locked dock found the tooltip shown with one Tick left and
\* restarted the timer
C29_Witness ==
    /\ LockedPress /\ lock_tooltip.call.shown
    /\ lock_tooltip.call.timer.remaining <= Tick
    /\ lock_tooltip.shown /\ lock_tooltip.timer.remaining = TOOLTIP_MSEC
    /\ lock_tooltip.timers = 1

\* the timer has hidden a tooltip that a press had shown
C29_HiddenWitness ==
    /\ lock_tooltip.call.op = "timeout" /\ lock_tooltip.call.shown
    /\ ~lock_tooltip.shown /\ ~lock_tooltip.forceHover

\* a press on the unlocked dock while the tooltip was still shown: the timer
\* runs on
C29_UnlockedWitness ==
    /\ Pressed /\ ~lock_tooltip.call.locked /\ lock_tooltip.call.shown
    /\ lock_tooltip.timer.active
    /\ lock_tooltip.timer.remaining = TOOLTIP_MSEC - Tick

-----------------------------------------------------------------------------

Init ==
    /\ GeometryInit
    /\ DockInit
    /\ MaterialInit
    /\ AdditionalInit
    /\ LocationInit
    /\ CliInit
    /\ WidthInit
    /\ EndDiaphragmInit
    /\ CustomPairsInit
    /\ WindowInit
    /\ TooltipInit

SpecGeometry == Init /\ [][NextGeometry]_vars

SpecDock == Init /\ [][NextDock]_vars

SpecMaterial == Init /\ [][NextMaterial]_vars

SpecDefaults == Init /\ [][NextDefaults]_vars

SpecAdditional == Init /\ [][NextAdditional]_vars

SpecLayout == Init /\ [][NextLayout]_vars

SpecLocation == Init /\ [][NextLocation]_vars

SpecCli == Init /\ [][NextCli]_vars

SpecWidth == Init /\ [][NextWidth]_vars

SpecEndDiaphragm == Init /\ [][NextEndDiaphragm]_vars

SpecCustomPairs == Init /\ [][NextCustomPairs]_vars

SpecWindow == Init /\ [][NextWindow]_vars

SpecTooltip == Init /\ [][NextTooltip]_vars

\* the event loop keeps running: time passes and a timer that has run out
\* delivers its timeout
SpecTooltipFair == SpecTooltip /\ WF_vars(TimePasses)

SpecDockWithAdditional == Init /\ [][NextDockWithAdditional]_vars

=============================================================================
